---- MODULE Spec2Model ----
(***************************************************************************)
(* A model of the vclock library (gford1000-go/vclock): the clock map, the *)
(* Event variants and their application, the history, the comparison       *)
(* routine, the identifier shortener and the single-writer actor that      *)
(* serves every public operation through one request and one response      *)
(* channel.                                                                *)
(*                                                                         *)
(* Every record constructor lists its fields in the order in which their   *)
(* names first occur in this module (the order TLC sorts them in), and     *)
(* records that do not depend on a parameter are definitions of their own: *)
(* a record shared between states is then never re-sorted by two workers   *)
(* of TLC at once.                                                         *)
(***************************************************************************)
EXTENDS Integers, Sequences, FiniteSets, TLC

\* ------------------------------------------------------------------------
\* Bounds of the model
\* ------------------------------------------------------------------------

\* largest counter value drawn for an initial clock
MaxVal == 2

\* the width of a counter: the uint64 of the source is modelled by an
\* unsigned integer of CounterBits bits, large enough for every counter
\* that is not started next to its largest value
CounterBits == 4

\* math.MaxUint64 of that width
MaxUint64 == 2^CounterBits - 1

\* ------------------------------------------------------------------------
\* Identifiers and their order
\* ------------------------------------------------------------------------

\* the non-empty identifiers callers use
Ids == {"a", "b", "c"}

\* the identifiers a caller can pass, the empty string included
LongIds == Ids \cup {""}

\* identifiers one of which begins with another
ObsIds == {"a", "ab", "b"}

\* hex.EncodeToString(sha256.New().Sum([]byte(s))): the bytes of s followed
\* by the digest of the empty input, hex encoded (digest abbreviated)
sha256Hex == [s \in LongIds \cup ObsIds |->
                CASE s = "a" -> "61e3b0c442"
                  [] s = "ab" -> "6162e3b0c442"
                  [] s = "b" -> "62e3b0c442"
                  [] s = "c" -> "63e3b0c442"
                  [] OTHER   -> "e3b0c442"]

\* every string that can be a key of a clock map, in Go string order
StrOrder == <<"", "6162e3b0c442", "61e3b0c442", "62e3b0c442", "63e3b0c442",
             "a", "ab", "b", "c", "e3b0c442">>

Strs == {StrOrder[i] : i \in 1..Len(StrOrder)}

Rank(s) == CHOOSE i \in 1..Len(StrOrder) : StrOrder[i] = s

\* ------------------------------------------------------------------------
\* Maps
\* ------------------------------------------------------------------------

\* the empty map
EmptyMap == [k \in {} |-> 0]

\* all maps from a subset of the keys K to the values V
MapsOver(K, V) == UNION {[S -> V] : S \in SUBSET K}

\* m with key k set to v (inserting k if needed)
MapPut(m, k, v) == [x \in (DOMAIN m) \cup {k} |-> IF x = k THEN v ELSE m[x]]

RECURSIVE SortSet(_)
SortSet(S) ==
    IF S = {} THEN << >>
    ELSE LET k == CHOOSE x \in S : \A y \in S : Rank(x) <= Rank(y)
         IN  <<k>> \o SortSet(S \ {k})

\* sortedKeys returns a sorted slice of the map's keys
sortedKeys(m) == SortSet(DOMAIN m)

\* copyMap returns a copy of the supplied map
copyMap(m) == [k \in DOMAIN m |-> m[k]]

\* ------------------------------------------------------------------------
\* Comparison conditions and the comparison routine
\* ------------------------------------------------------------------------

equal == "equal"
ancestor == "ancestor"
descendant == "descendant"
concurrent == "concurrent"

\* a condition mask is the set of the conditions ORed together
Conditions == {equal, ancestor, descendant, concurrent}

\* a plausible slip in applyTest: "|" written for "&"
applyTestOr(cond, otherIs) == cond \cup {otherIs} # {}

\* the answer when no early answer was sent: c.cond&otherIs != 0
applyTest(cond, otherIs) == otherIs \in cond

\* the loop over the sorted keys of the other clock; i is the position in
\* otherKeys and otherIs the relation established so far
RECURSIVE compareLoop(_, _, _, _, _, _)
compareLoop(vc, other, cond, otherKeys, i, otherIs) ==
    IF i > Len(otherKeys)
    THEN applyTest(cond, otherIs)
    ELSE LET id == otherKeys[i] IN
         IF id \in DOMAIN vc
         THEN IF other[id] > vc[id]
              THEN CASE otherIs = equal ->
                          IF descendant \notin cond
                          THEN FALSE
                          ELSE compareLoop(vc, other, cond, otherKeys, i + 1, descendant)
                     [] otherIs = ancestor -> concurrent \in cond
                     [] OTHER -> compareLoop(vc, other, cond, otherKeys, i + 1, otherIs)
              ELSE IF other[id] < vc[id]
              THEN CASE otherIs = equal ->
                          IF ancestor \notin cond
                          THEN FALSE
                          ELSE compareLoop(vc, other, cond, otherKeys, i + 1, ancestor)
                     [] otherIs = descendant -> concurrent \in cond
                     [] OTHER -> compareLoop(vc, other, cond, otherKeys, i + 1, otherIs)
              ELSE compareLoop(vc, other, cond, otherKeys, i + 1, otherIs)
         ELSE IF otherIs = equal
              THEN concurrent \in cond
              ELSE IF (Cardinality(DOMAIN other) - Cardinality(DOMAIN vc) - 1) < 0
                   THEN concurrent \in cond
                   ELSE applyTest(cond, otherIs)

\* a plausible slip in the length qualification: ">=" written for ">"
lengthQualificationGe(vc, other) ==
    IF Cardinality(DOMAIN vc) >= Cardinality(DOMAIN other) THEN ancestor
    ELSE IF Cardinality(DOMAIN vc) < Cardinality(DOMAIN other) THEN descendant
    ELSE equal

\* the relation suggested by the two lengths
lengthQualification(vc, other) ==
    IF Cardinality(DOMAIN vc) > Cardinality(DOMAIN other) THEN ancestor
    ELSE IF Cardinality(DOMAIN vc) < Cardinality(DOMAIN other) THEN descendant
    ELSE equal

\* compare decides whether the other clock stands in one of the relations
\* of cond to the clock vc
compare(vc, other, cond) ==
    LET otherIs == lengthQualification(vc, other) IN
    IF otherIs = ancestor /\ cond \cap {ancestor, concurrent} = {} THEN FALSE
    ELSE IF otherIs = descendant /\ cond \cap {descendant, concurrent} = {} THEN FALSE
    ELSE IF cond \cap {equal, descendant} # {}
            /\ \E key \in DOMAIN vc : key \notin DOMAIN other THEN FALSE
    ELSE IF cond \cap {equal, ancestor} # {}
            /\ \E key \in DOMAIN other : key \notin DOMAIN vc THEN FALSE
    ELSE compareLoop(vc, other, cond, sortedKeys(other), 1, otherIs)

\* ------------------------------------------------------------------------
\* Identifier shorteners
\* ------------------------------------------------------------------------

NoOp == "NoOp"
SHA256 == "SHA256"

\* the shorteners registered by init()
ShortenerNames == {NoOp, SHA256}

getDefaultShortenerName == NoOp

\* the Shortener function f of the named shortener
shortenerFunc(name, s) == IF name = SHA256 THEN sha256Hex[s] ELSE s

\* Shorten returns f(s); it also records f(s) -> s in the shortener's map
Shorten(name, s) == shortenerFunc(name, s)

\* the map of the named shortener after Shorten was called on every
\* string of the set S
ShortenRecord(tbl, name, S) ==
    [tbl EXCEPT ![name] =
        [k \in (DOMAIN tbl[name]) \cup {shortenerFunc(name, s) : s \in S} |->
            IF \E s \in S : shortenerFunc(name, s) = k
            THEN CHOOSE s \in S : shortenerFunc(name, s) = k
            ELSE tbl[name][k]]]

errUnknownShort == "errUnknownShort"

\* Recover returns the string recorded for s
RecoverOk(tbl, name, s) == s \in DOMAIN tbl[name]

Recover(tbl, name, s) == tbl[name][s]

\* copyMapWithKeyModification with f = Shorten (never fails)
copyMapShorten(m, name) ==
    [kk \in {Shorten(name, k) : k \in DOMAIN m} |->
        m[CHOOSE k \in DOMAIN m : Shorten(name, k) = kk]]

\* copyMapWithKeyModification with f = Recover: the error of the first
\* key that cannot be recovered, or the copy under the recovered keys
copyMapRecover(m, tbl, name) ==
    IF \E k \in DOMAIN m : ~RecoverOk(tbl, name, k)
    THEN [c |-> EmptyMap, e |-> errUnknownShort]
    ELSE [c |-> [kk \in {Recover(tbl, name, k) : k \in DOMAIN m} |->
                    m[CHOOSE k \in DOMAIN m : Recover(tbl, name, k) = kk]],
          e |-> "nil"]

\* ------------------------------------------------------------------------
\* Events
\* ------------------------------------------------------------------------

Set == "Set"
Tick == "Tick"
Merge == "Merge"

errClockIdMustNotBeEmptyString == "errClockIdMustNotBeEmptyString"
errAttemptToSetExistingId == "errAttemptToSetExistingId"
errAttemptToTickUnknownId == "errAttemptToTickUnknownId"
errClosedVClock == "errClosedVClock"
errClockMustNotBeNil == "errClockMustNotBeNil"
errUnknownReqType == "errUnknownReqType"

\* the Change of the first history item
NoEvent == [Type |-> "nil"]

SetEvent(id, v) == [Set |-> [Id |-> id, Value |-> v], Type |-> Set]
TickEvent(id) == [Tick |-> id, Type |-> Tick]
MergeEvent(other) == [Merge |-> other, Type |-> Merge]

\* a plausible slip in the Merge branch: the counter of the merged clock
\* is assigned without comparing it with the counter already held
RECURSIVE applyMergeOverwrite(_, _, _, _)
applyMergeOverwrite(m, other, ids, name) ==
    IF ids = << >> THEN m
    ELSE applyMergeOverwrite(MapPut(m, Shorten(name, Head(ids)), other[Head(ids)]),
                             other, Tail(ids), name)

\* a plausible slip in the Merge branch: identifiers the receiver does
\* not hold yet are skipped
RECURSIVE applyMergeKnownOnly(_, _, _, _)
applyMergeKnownOnly(m, other, ids, name) ==
    IF ids = << >> THEN m
    ELSE applyMergeKnownOnly(
            IF Shorten(name, Head(ids)) \in DOMAIN m /\ m[Shorten(name, Head(ids))] < other[Head(ids)]
            THEN MapPut(m, Shorten(name, Head(ids)), other[Head(ids)])
            ELSE m,
            other, Tail(ids), name)

\* the Merge branch of Event.apply: the loop over the entries of the
\* merged clock, ids being the keys not yet visited
RECURSIVE applyMerge(_, _, _, _)
applyMerge(m, other, ids, name) ==
    IF ids = << >> THEN m
    ELSE LET id  == Head(ids)
             nid == Shorten(name, id)
             m2  == IF nid \in DOMAIN m
                    THEN IF m[nid] < other[id] THEN MapPut(m, nid, other[id]) ELSE m
                    ELSE MapPut(m, nid, other[id])
         IN  applyMerge(m2, other, Tail(ids), name)

\* a plausible slip in the Set branch: the identifier is assigned without
\* looking it up first
applySetReassign(info, m, name) ==
    IF info.Id = ""
    THEN [m |-> m, err |-> errClockIdMustNotBeEmptyString]
    ELSE [m |-> MapPut(m, Shorten(name, info.Id), info.Value), err |-> "nil"]

\* the Set branch of Event.apply
applySet(info, m, name) ==
    IF info.Id = ""
    THEN [m |-> m, err |-> errClockIdMustNotBeEmptyString]
    ELSE LET id == Shorten(name, info.Id) IN
         IF id \in DOMAIN m
         THEN [m |-> m, err |-> errAttemptToSetExistingId]
         ELSE [m |-> MapPut(m, id, info.Value), err |-> "nil"]

\* Event.apply: the error and the map m after the event e was applied
\* to it, identifiers being transformed by the named shortener
EventApply(e, m, name) ==
    CASE e.Type = Set -> applySet(e.Set, m, name)
      [] e.Type = Tick ->
            LET id == Shorten(name, e.Tick) IN
            IF id \notin DOMAIN m
            THEN [m |-> m, err |-> errAttemptToTickUnknownId]
            ELSE [m |-> MapPut(m, id, (m[id] + 1) % (MaxUint64 + 1)), err |-> "nil"]
      [] e.Type = Merge ->
            [m |-> applyMerge(m, e.Merge, sortedKeys(e.Merge), name), err |-> "nil"]
      [] OTHER -> [m |-> m, err |-> "nil"]

\* the strings Event.apply passes to the shortener
EventShortened(e) ==
    CASE e.Type = Set -> IF e.Set.Id = "" THEN {} ELSE {e.Set.Id}
      [] e.Type = Tick -> {e.Tick}
      [] e.Type = Merge -> DOMAIN e.Merge
      [] OTHER -> {}

\* ------------------------------------------------------------------------
\* History
\* ------------------------------------------------------------------------

\* a plausible slip in newHistory: item 0 is given a new clock, into
\* which m is not copied
newHistoryForgets(m, name, applyShortener) ==
    [lastId |-> 0,
     items  |-> << [HistoryId |-> 0, Change |-> NoEvent, Clock |-> EmptyMap] >>]

\* newHistory initialises a history holding the clock m as item 0
newHistory(m, name, applyShortener) ==
    [lastId |-> 0,
     items  |-> << [HistoryId |-> 0,
                    Change    |-> NoEvent,
                    Clock     |-> IF applyShortener THEN copyMapShorten(m, name)
                                                    ELSE copyMap(m)] >>]

\* getLastId returns the id of the latest clock
getLastId(h) == h.lastId

\* a plausible slip in history.latest: the first item is returned, which
\* is the latest one only while nothing was appended
latestFirst(h) == h.items[1].Clock

\* latest returns the current clock, with the shortened identifiers
\* (items is indexed from 0 in the source, from 1 here)
latest(h) == h.items[getLastId(h) + 1].Clock

\* latestWithCopy returns a copy of the current clock with either the
\* shortened or the recovered identifiers
latestWithCopy(h, tbl, name, useExistingIdentifiers) ==
    IF useExistingIdentifiers
    THEN [c |-> copyMap(latest(h)), e |-> "nil"]
    ELSE copyMapRecover(latest(h), tbl, name)

\* a plausible slip in history.apply: the item is appended before the
\* error of the event is looked at
historyAppendAlways(h, event, res) ==
    [err |-> res.err,
     h   |-> [lastId |-> getLastId(h) + 1,
              items  |-> Append(h.items,
                           [HistoryId |-> getLastId(h) + 1,
                            Change    |-> event,
                            Clock     |-> res.m])]]

\* the end of history.apply: res is what Event.apply returned for the copy
\* of the latest clock
historyAppend(h, event, res) ==
    IF res.err # "nil"
    THEN [err |-> res.err, h |-> h]
    ELSE [err |-> "nil",
          h   |-> [lastId |-> getLastId(h) + 1,
                   items  |-> Append(h.items,
                                [HistoryId |-> getLastId(h) + 1,
                                 Change    |-> event,
                                 Clock     |-> res.m])]]

\* a plausible slip in history.apply: the event is applied to a copy of
\* the clock of item 0
historyApplyToFirst(h, event, name) ==
    historyAppend(h, event, EventApply(event, copyMap(latestFirst(h)), name))

\* history.apply extends the history by the result of the event, or
\* returns the error of the event and leaves the history alone
historyApply(h, event, name) ==
    historyAppend(h, event, EventApply(event, copyMap(latest(h)), name))

\* the loop of getRange and getFullRange: the items from..to that exist
RECURSIVE rangeItems(_, _, _)
rangeItems(h, from, to) ==
    IF from > to THEN << >>
    ELSE (IF from <= getLastId(h) THEN << h.items[from + 1] >> ELSE << >>)
            \o rangeItems(h, from + 1, to)

\* getFullRange returns no items and the error of Recover
recoverFailed == [e |-> errUnknownShort, h |-> << >>]

\* the copies getFullRange returns for the items it selected
copyItems(items, useShortened, tbl, name) ==
    IF useShortened
    THEN [e |-> "nil", h |-> items]
    ELSE IF \E i \in 1..Len(items) : \E k \in DOMAIN items[i].Clock : ~RecoverOk(tbl, name, k)
         THEN recoverFailed
         ELSE [e |-> "nil",
               h |-> [i \in 1..Len(items) |->
                        [HistoryId |-> items[i].HistoryId,
                         Change    |-> items[i].Change,
                         Clock     |-> copyMapRecover(items[i].Clock, tbl, name).c]]]

\* getFullRange returns copies of the items from..to, the keys of their
\* clocks shortened or recovered
getFullRange(h, from, to, useShortened, tbl, name) ==
    copyItems(rangeItems(h, IF from > to THEN to ELSE from, IF from > to THEN from ELSE to),
              useShortened, tbl, name)

\* the clocks of the items getFullRange returned
clocksOf(r) == [e |-> r.e, h |-> [i \in 1..Len(r.h) |-> r.h[i].Clock]]

\* getRange returns copies of the clocks of the items from..to
getRange(h, from, to, useShortened, tbl, name) ==
    clocksOf(getFullRange(h, from, to, useShortened, tbl, name))

\* getAll returns all of the history with the recovered identifiers
getAll(h, tbl, name) == getRange(h, 0, getLastId(h), FALSE, tbl, name)

\* a plausible slip in getFullAll: the range starts at 1
getFullAllButFirst(h, tbl, name) == getFullRange(h, 1, getLastId(h), FALSE, tbl, name)

\* getFullAll returns all of the items with the recovered identifiers
getFullAll(h, tbl, name) == getFullRange(h, 0, getLastId(h), FALSE, tbl, name)

\* ------------------------------------------------------------------------
\* Requests, responses and the request handler of the actor
\* ------------------------------------------------------------------------

reqComp(other, cond) == [cond |-> cond, other |-> other, t |-> "respComp"]
reqFullHistory == [t |-> "reqFullHistory"]
reqGet(id) == [id |-> id, t |-> "reqGet"]
reqHistory == [t |-> "reqHistory"]
reqLastUpdate == [t |-> "reqLastUpdate"]
reqMerge(other) == [c |-> other, t |-> "Clock"]
reqPrune == [t |-> "reqPrune"]
reqSet(id, v) == [Id |-> id, Value |-> v, t |-> "SetInfo"]
reqSnap == [t |-> "reqSnap"]
reqSnapShortenedIdentifiers == [t |-> "reqSnapShortenedIdentifiers"]
reqTick(id) == [id |-> id, t |-> "reqTick"]

respErr(err) == [err |-> err, t |-> "respErr"]
respBool(b) == [t |-> "bool", b |-> b]

\* the responses that do not depend on the request
noErr == respErr("nil")
emptyIdResponse == respErr(errClockIdMustNotBeEmptyString)
unknownReqResponse == respErr(errUnknownReqType)
respGetterWithStatus(id, v, b) == [v |-> v, id |-> id, t |-> "respGetterWithStatus", b |-> b]
respGetter(id, v, e) == [v |-> v, id |-> id, e |-> e, t |-> "respGetter"]
respClock(c, e) == [c |-> c, e |-> e, t |-> "respClock"]
respHistory(h, e) == [e |-> e, h |-> h, t |-> "respHistory"]
respHistoryAll(h, e) == [e |-> e, h |-> h, t |-> "respHistoryAll"]

\* the identifiers the loop of reqLastUpdate can end with: the map is
\* visited in any order and an entry replaces the current one only when
\* its counter is strictly larger
lastUpdateIds(vc) ==
    IF \A k \in DOMAIN vc : vc[k] = 0
    THEN {""}
    ELSE {k \in DOMAIN vc : \A j \in DOMAIN vc : vc[j] <= vc[k]}

\* the strings processRequest passes to Shorten while it serves r
requestShortened(r) ==
    CASE r.t = "respComp" -> DOMAIN r.other
      [] r.t = "reqGet"   -> {r.id}
      [] r.t = "Clock"    -> EventShortened(MergeEvent(r.c))
      [] r.t = "SetInfo"  -> EventShortened(SetEvent(r.Id, r.Value))
      [] r.t = "reqTick"  -> IF r.id = "" THEN {} ELSE EventShortened(TickEvent(r.id))
      [] OTHER            -> {}

\* the response to a Set, Tick or Merge: a is what history.apply returned
applied(a, tbl) == [tbl |-> tbl, h |-> a.h, resp |-> respErr(a.err)]

\* the response to a request that leaves the history alone
answered(h, tbl, resp) == [tbl |-> tbl, h |-> h, resp |-> resp]

\* a plausible slip in reqGet: the clock is read under the identifier of
\* the caller, not the shortened one
getEntryLong(vc, id, k) ==
    respGetterWithStatus(id, IF id \in DOMAIN vc THEN vc[id] ELSE 0, id \in DOMAIN vc)

\* the response to reqGet: k is the shortened identifier
getEntry(vc, id, k) ==
    respGetterWithStatus(id, IF k \in DOMAIN vc THEN vc[k] ELSE 0, k \in DOMAIN vc)

\* the response to reqLastUpdate: pick is the identifier the loop over the
\* map ended with
lastUpdate(vc, tbl, name, pick) ==
    IF RecoverOk(tbl, name, pick)
    THEN respGetter(Recover(tbl, name, pick), IF pick \in DOMAIN vc THEN vc[pick] ELSE 0, "nil")
    ELSE respGetter("", IF pick \in DOMAIN vc THEN vc[pick] ELSE 0, errUnknownShort)

\* the clock and error of a respClock or respHistory response
clockResponse(c) == respClock(c.c, c.e)
historyResponse(g) == respHistory(g.h, g.e)
historyAllResponse(g) == respHistoryAll(g.h, g.e)

\* the switch of processRequest on the type of the request r; h is the
\* history (pruned if history is not maintained) and tbl the shortener
\* maps after the calls of Shorten
handleRequest(h, name, tbl, r, pick) ==
    CASE r.t = "respComp" ->
            answered(h, tbl,
                     respBool(compare(latest(h), copyMapShorten(r.other, name), r.cond)))
      [] r.t = "reqFullHistory" ->
            answered(h, tbl, historyAllResponse(getFullAll(h, tbl, name)))
      [] r.t = "reqGet" ->
            answered(h, tbl, getEntry(latest(h), r.id, Shorten(name, r.id)))
      [] r.t = "reqHistory" ->
            answered(h, tbl, historyResponse(getAll(h, tbl, name)))
      [] r.t = "reqLastUpdate" ->
            answered(h, tbl, lastUpdate(latest(h), tbl, name, pick))
      [] r.t = "Clock" ->
            applied(historyApply(h, MergeEvent(r.c), name), tbl)
      [] r.t = "reqPrune" ->
            answered(newHistory(latest(h), name, FALSE), tbl, noErr)
      [] r.t = "SetInfo" ->
            applied(historyApply(h, SetEvent(r.Id, r.Value), name), tbl)
      [] r.t = "reqSnap" ->
            answered(h, tbl, clockResponse(latestWithCopy(h, tbl, name, FALSE)))
      [] r.t = "reqSnapShortenedIdentifiers" ->
            answered(h, tbl, clockResponse(latestWithCopy(h, tbl, name, TRUE)))
      [] r.t = "reqTick" ->
            IF r.id = ""
            THEN answered(h, tbl, emptyIdResponse)
            ELSE applied(historyApply(h, TickEvent(r.id), name), tbl)
      [] OTHER -> answered(h, tbl, unknownReqResponse)

\* a plausible slip in processRequest: history is not pruned when it is
\* not maintained
processRequestKeeps(h0, mh, name, tbl0, r, pick) ==
    handleRequest(h0, name, ShortenRecord(tbl0, name, requestShortened(r)), r, pick)

\* a plausible slip in processRequest: the prune keeps the first clock of
\* the history instead of the latest
processRequestPrunesToFirst(h0, mh, name, tbl0, r, pick) ==
    handleRequest(IF ~mh THEN newHistory(h0.items[1].Clock, name, FALSE) ELSE h0,
                  name,
                  ShortenRecord(tbl0, name, requestShortened(r)),
                  r, pick)

\* processRequest: the history, the shortener maps and the response sent
\* after the actor of a clock (history h0, maintainHistory mh, shortener
\* name) has served the request r; pick is the identifier the map
\* iteration of reqLastUpdate ends with
processRequest(h0, mh, name, tbl0, r, pick) ==
    handleRequest(IF ~mh THEN newHistory(latest(h0), name, FALSE) ELSE h0,
                  name,
                  ShortenRecord(tbl0, name, requestShortened(r)),
                  r, pick)

\* ------------------------------------------------------------------------
\* State
\* ------------------------------------------------------------------------

\* the VClock instances
Clocks == {"A", "B"}

VARIABLES
    history,      \* history[c]: the history owned by the actor of clock c
    maintain,     \* maintain[c]: maintainHistory of clock c
    shortener,    \* shortener[c]: the name of the shortener of clock c
    tables,       \* tables[n]: the map of the shortener registered as n
    peerOf,       \* the clock passed as "other" to the comparisons
    cmpResult,    \* what each comparison of clock A returned, once called
    start,        \* the histories and shortener maps right after construction
    log,          \* the calls of Merge that returned, in order
    pc,           \* pc[p]: where caller p is: "idle", "send" or "recv"
    call,         \* call[p]: the facade call caller p is in
    actor,        \* actor[c]: where the actor of clock c is, and its response
    got,          \* got[p]: the response the last call of p returned
    expect,       \* expect[p]: the response of that call in the sequential order
    seq,          \* the histories and shortener maps of the sequential order
    ops,          \* the number of facade calls made by the callers
    selfPeer,     \* a caller passed the receiver itself as "other"
    ticks,        \* ticks[id]: the number of calls of Tick(id) that returned nil
    ctx,          \* ctx[c]: the context of clock c: "none", "live" or "done"
    parent,       \* parent[c]: the clock whose context that of c derives from
    closeReturned, \* the clocks on which Close() has returned
    late,         \* the callers whose call began after Close() of its clock
    remote        \* the shortener maps of a second process

\* the goroutines calling the facade concurrently
Procs == {"p1", "p2"}

clockVars == <<history, maintain, shortener, tables>>
compareVars == <<peerOf, cmpResult>>
mergeVars == <<start, log>>
callerVars == <<pc, call, actor, got, expect, seq, ops, selfPeer, ticks>>
lifeVars == <<ctx, parent, closeReturned, late>>
bytesVars == <<remote>>

vars == <<clockVars, compareVars, mergeVars, callerVars, lifeVars, bytesVars>>

\* no request and no response
NoCall == [op |-> "none"]
NoResp == [t |-> "none"]

\* an actor in the select of its main loop
inSelect == [resp |-> NoResp, at |-> "select"]

\* no comparison was called yet
IdleCompare ==
    /\ peerOf = "A"
    /\ cmpResult = [m \in {"Equal", "Concurrent", "DescendsFrom", "AncestorOf"} |-> "none"]

\* the store right after construction; no Merge returned yet
IdleMerge ==
    /\ start = [tbl |-> tables, hs |-> history]
    /\ log = << >>

\* no caller is in a call, every actor is in its select
IdleCallers ==
    /\ pc = [p \in Procs |-> "idle"]
    /\ call = [p \in Procs |-> NoCall]
    /\ actor = [c \in Clocks |-> inSelect]
    /\ got = [p \in Procs |-> NoResp]
    /\ expect = [p \in Procs |-> NoResp]
    /\ seq = [tbl |-> tables, hs |-> history]
    /\ ops = 0
    /\ selfPeer = FALSE
    /\ ticks = [id \in LongIds |-> 0]

\* the clocks an initial clock is drawn from
InitClocks == MapsOver(Ids, 0..MaxVal)

\* the shortener maps after init(): nothing shortened yet
initTables == [n \in ShortenerNames |-> EmptyMap]

\* the context handed to New by the application
scope == "scope"

\* every clock was constructed from the context of the application, which
\* is not cancelled, and Close was not called
IdleLife ==
    /\ ctx = [c \in Clocks |-> "live"]
    /\ parent = [c \in Clocks |-> scope]
    /\ closeReturned = {}
    /\ late = {}

\* the second process has shortened nothing
IdleBytes == remote = initTables

\* newClock: the history the actor starts with
newClockHistory(init, name, applyShortenerToInit) ==
    newHistory(init, name, applyShortenerToInit)

\* newClock: the shortener maps after the initial clock was shortened
newClockTables(tbl, init, name, applyShortenerToInit) ==
    IF applyShortenerToInit THEN ShortenRecord(tbl, name, DOMAIN init) ELSE tbl

\* ------------------------------------------------------------------------
\* The facade, called by one caller at a time
\* ------------------------------------------------------------------------

\* the actor of clock c has left its loop and closed both channels
closedQueues(c) == actor[c].at = "done"

\* the requests answered by a respClock
snapRequests == {"reqSnap", "reqSnapShortenedIdentifiers"}

\* the responses of a closed clock that do not depend on the request
closedClock == respClock(EmptyMap, errClosedVClock)
closedLastUpdate == respGetter("", 0, errClosedVClock)
closedHistory == respHistory(<< >>, errClosedVClock)
closedHistoryAll == respHistoryAll(<< >>, errClosedVClock)
closedErr == respErr(errClosedVClock)

\* what a facade call returns for the request r when Send or Recv found
\* the channel closed: the zero value of the response and errClosedVClock
closedResponse(r) ==
    CASE r.t \in snapRequests -> closedClock
      [] r.t = "reqGet" -> respGetterWithStatus(r.id, 0, FALSE)
      [] r.t = "reqLastUpdate" -> closedLastUpdate
      [] r.t = "reqHistory" -> closedHistory
      [] r.t = "reqFullHistory" -> closedHistoryAll
      [] OTHER -> closedErr

\* the request r was not sent: the store is as it was
refused(hs, tbl, r) == [tbl |-> tbl, resp |-> closedResponse(r), hs |-> hs]

\* the actor of clock c serves r in the store (hs, tbl)
served(hs, c, out) == [tbl |-> out.tbl, resp |-> out.resp, hs |-> [hs EXCEPT ![c] = out.h]]

\* one request and its response, a caller being alone: the request is
\* served by the actor of c unless the channels of c are closed
serve(hs, tbl, c, r, pick) ==
    IF closedQueues(c)
    THEN refused(hs, tbl, r)
    ELSE served(hs, c, processRequest(hs[c], maintain[c], shortener[c], tbl, r, pick))

\* GetClock: the response to reqSnap, and the store after it
GetClock(hs, tbl, c) == serve(hs, tbl, c, reqSnap, "")

\* what a facade call returns after its last request was served
returned(s, ret) == [tbl |-> s.tbl, err |-> "nil", hs |-> s.hs, ret |-> ret]

\* what a facade call returns when taking the snapshot of other failed
failed(s1, ret) == [tbl |-> s1.tbl, err |-> s1.resp.e, hs |-> s1.hs, ret |-> ret]

\* the boolean a comparison returns
comparedAs(s2) == returned(s2, s2.resp.b)

\* the second half of VClock.compare: s1 is the store and the response
\* after the snapshot of other was taken
compareWith(s1, vc, cond) ==
    IF s1.resp.e # "nil"
    THEN failed(s1, FALSE)
    ELSE comparedAs(serve(s1.hs, s1.tbl, vc, reqComp(s1.resp.c, cond), ""))

\* a nil *VClock
nilClock == "nil"

\* what Merge and compare return for a nil clock
nilRefused(hs, tbl) == [tbl |-> tbl, err |-> errClockMustNotBeNil, hs |-> hs, ret |-> FALSE]

\* a plausible slip in VClock.compare: the snapshot is taken of the
\* receiver instead of other
vclockCompareOwnSnapshot(hs, tbl, vc, other, cond) ==
    compareWith(GetClock(hs, tbl, vc), vc, cond)

\* VClock.compare: the snapshot of other is taken, then the request is
\* served by the actor of vc; ret is the boolean, err the error
vclockCompare(hs, tbl, vc, other, cond) ==
    IF other = nilClock
    THEN nilRefused(hs, tbl)
    ELSE compareWith(GetClock(hs, tbl, other), vc, cond)

\* the error Merge returns
mergedAs(s2) == [tbl |-> s2.tbl, err |-> s2.resp.err, hs |-> s2.hs, ret |-> FALSE]

\* a plausible slip in VClock.Merge: the error of GetClock is not looked at
mergeWithRegardless(s1, vc) ==
    mergedAs(serve(s1.hs, s1.tbl, vc, reqMerge(s1.resp.c), ""))

\* the second half of VClock.Merge: s1 is the store and the response
\* after the snapshot of other was taken
mergeWith(s1, vc) ==
    IF s1.resp.e # "nil"
    THEN failed(s1, FALSE)
    ELSE mergedAs(serve(s1.hs, s1.tbl, vc, reqMerge(s1.resp.c), ""))

\* VClock.Merge: the snapshot of other is taken, then sent to the actor
\* of vc as a Merge event
vclockMerge(hs, tbl, vc, other) ==
    IF other = nilClock
    THEN nilRefused(hs, tbl)
    ELSE mergeWith(GetClock(hs, tbl, other), vc)

Equal(hs, tbl, vc, other) == vclockCompare(hs, tbl, vc, other, {equal})
Concurrent(hs, tbl, vc, other) == vclockCompare(hs, tbl, vc, other, {concurrent})
DescendsFrom(hs, tbl, vc, other) == vclockCompare(hs, tbl, vc, other, {descendant})

\* a plausible slip in AncestorOf: the condition of DescendsFrom is passed
AncestorOfAsDescendant(hs, tbl, vc, other) == vclockCompare(hs, tbl, vc, other, {descendant})

AncestorOf(hs, tbl, vc, other) == vclockCompare(hs, tbl, vc, other, {ancestor})

\* the snapshot a caller of GetClock sees (long identifiers)
SnapshotIn(hs, tbl, c) == GetClock(hs, tbl, c).resp.c
Snapshot(c) == SnapshotIn(history, tables, c)

\* ------------------------------------------------------------------------
\* Specification of the comparisons: clock A is compared with a peer
\* ------------------------------------------------------------------------

Methods == {"Equal", "Concurrent", "DescendsFrom", "AncestorOf"}

InitCompare ==
    \E ia \in InitClocks, ib \in InitClocks :
        /\ maintain = [c \in Clocks |-> FALSE]
        /\ shortener = [c \in Clocks |-> getDefaultShortenerName]
        /\ history = [c \in Clocks |->
                        newClockHistory(IF c = "A" THEN ia ELSE ib, shortener[c], TRUE)]
        /\ tables = newClockTables(newClockTables(initTables, ia, NoOp, TRUE), ib, NoOp, TRUE)
        /\ peerOf \in Clocks
        /\ cmpResult = [m \in Methods |-> "none"]
        /\ IdleMerge
        /\ IdleCallers
        /\ IdleLife
        /\ IdleBytes

\* the comparison m of clock A against its peer returns
CallCompare(m, out) ==
    /\ cmpResult[m] = "none"
    /\ cmpResult' = [cmpResult EXCEPT ![m] =
                        IF out.err # "nil" THEN out.err
                        ELSE IF out.ret THEN "true" ELSE "false"]
    /\ history' = out.hs
    /\ tables' = out.tbl
    /\ UNCHANGED <<maintain, shortener, peerOf, mergeVars, callerVars, lifeVars, bytesVars>>

CallEqual == CallCompare("Equal", Equal(history, tables, "A", peerOf))
CallConcurrent == CallCompare("Concurrent", Concurrent(history, tables, "A", peerOf))
CallDescendsFrom == CallCompare("DescendsFrom", DescendsFrom(history, tables, "A", peerOf))
CallAncestorOf == CallCompare("AncestorOf", AncestorOf(history, tables, "A", peerOf))

NextCompare == CallEqual \/ CallConcurrent \/ CallDescendsFrom \/ CallAncestorOf

SpecCompare == InitCompare /\ [][NextCompare]_vars

\* ------------------------------------------------------------------------
\* Properties of the comparisons (checked under SpecCompare)
\* ------------------------------------------------------------------------

\* the snapshots of the two clocks compared
SelfSnap == Snapshot("A")
OtherSnap == Snapshot(peerOf)

AllCompared == \A m \in Methods : cmpResult[m] # "none"

ComparedTrue == {m \in Methods : cmpResult[m] = "true"}

\* cmpResult[m] is b whenever m was called
Returned(m, b) == cmpResult[m] # "none" => (cmpResult[m] = "true" <=> b)

\* every key of x is in y with y[k] >= x[k]
Dominated(x, y) ==
    /\ DOMAIN x \subseteq DOMAIN y
    /\ \A k \in DOMAIN x : y[k] >= x[k]

\* some key of x has a strictly larger counter in y
StrictlyBelow(x, y) == \E k \in (DOMAIN x) \cap (DOMAIN y) : y[k] > x[k]

\* C3 (as claimed): for every pair of clocks exactly one of Equal,
\* AncestorOf, DescendsFrom and Concurrent returns true.
C3_ExactlyOne == AllCompared => Cardinality(ComparedTrue) = 1

\* C3 (amended): for every pair of clocks at most one of Equal, AncestorOf,
\* DescendsFrom and Concurrent returns true; in particular when Concurrent
\* returns true the other three return false.  All four can return false.
C3_AtMostOne == Cardinality(ComparedTrue) <= 1

\* C3 witness: the four comparisons were made on two different non-empty
\* clocks sharing an identifier and exactly one of them returned true
C3_Witness ==
    /\ AllCompared
    /\ peerOf = "B"
    /\ (DOMAIN SelfSnap) \cap (DOMAIN OtherSnap) # {}
    /\ Cardinality(ComparedTrue) = 1
    /\ cmpResult["Concurrent"] = "true"

\* C4 (as claimed): A.DescendsFrom(B) returns true exactly when every
\* identifier of A is in B, B[k] >= A[k] for each of them and B[k] > A[k]
\* for at least one of them.
C4_DescendsFromIff ==
    Returned("DescendsFrom", Dominated(SelfSnap, OtherSnap) /\ StrictlyBelow(SelfSnap, OtherSnap))

C6_ConcurrentIff ==
    Returned("Concurrent",
             LET shared == (DOMAIN SelfSnap) \cap (DOMAIN OtherSnap) IN
             /\ \/ shared = {}
                \/ /\ (DOMAIN SelfSnap) \ (DOMAIN OtherSnap) # {}
                   /\ (DOMAIN OtherSnap) \ (DOMAIN SelfSnap) # {}
             /\ \A k \in shared : SelfSnap[k] = OtherSnap[k])

\* C7: A.Equal(B) returns true exactly when A and B have the same
\* identifiers and the same counter for each (two empty clocks included).
C7_EqualIff ==
    Returned("Equal",
             /\ DOMAIN SelfSnap = DOMAIN OtherSnap
             /\ \A k \in DOMAIN SelfSnap : SelfSnap[k] = OtherSnap[k])

\* C7 witness: Equal returned true for another clock with the same two
\* identifiers and counters
C7_Witness ==
    /\ cmpResult["Equal"] = "true"
    /\ peerOf = "B"
    /\ Cardinality(DOMAIN SelfSnap) = 2
    /\ \E k \in DOMAIN SelfSnap : SelfSnap[k] > 0

\* C8: for a clock D with the same contents as C (C itself or a copy),
\* C.Equal(D) is true and C.AncestorOf(D), C.DescendsFrom(D) and
\* C.Concurrent(D) are false.
C8_SameContents ==
    SelfSnap = OtherSnap =>
        /\ Returned("Equal", TRUE)
        /\ Returned("AncestorOf", FALSE)
        /\ Returned("DescendsFrom", FALSE)
        /\ Returned("Concurrent", FALSE)

\* C8 witness: a non-empty clock was compared with itself in all four ways
C8_Witness ==
    /\ AllCompared
    /\ peerOf = "A"
    /\ Cardinality(DOMAIN SelfSnap) >= 2

\* ------------------------------------------------------------------------
\* Specification of Merge: clocks A and B are merged with each other and
\* with themselves, one call at a time
\* ------------------------------------------------------------------------

\* the number of calls of Merge made
MaxMerges == 2

InitMerge ==
    \E ia \in MapsOver({"a", "b"}, 0..MaxVal), ib \in MapsOver({"b", "c"}, 0..MaxVal) :
        /\ maintain \in {[c \in Clocks |-> b] : b \in BOOLEAN}
        /\ shortener \in [Clocks -> ShortenerNames]
        /\ history = [c \in Clocks |->
                        newClockHistory(IF c = "A" THEN ia ELSE ib, shortener[c], TRUE)]
        /\ tables = newClockTables(newClockTables(initTables, ia, shortener["A"], TRUE),
                                   ib, shortener["B"], TRUE)
        /\ IdleCompare
        /\ IdleMerge
        /\ IdleCallers
        /\ IdleLife
        /\ IdleBytes

\* vc.Merge(other) returns out; the snapshots seen through GetClock right
\* before and right after the call are recorded with it
MergeReturns(vc, other, out) ==
    /\ history' = out.hs
    /\ tables' = out.tbl
    /\ log' = Append(log, [vc          |-> vc,
                           other       |-> other,
                           err         |-> out.err,
                           selfBefore  |-> Snapshot(vc),
                           otherBefore |-> Snapshot(other),
                           selfAfter   |-> SnapshotIn(out.hs, out.tbl, vc),
                           otherAfter  |-> SnapshotIn(out.hs, out.tbl, other)])
    /\ UNCHANGED <<maintain, shortener, start, compareVars, callerVars, lifeVars, bytesVars>>

CallMerge(vc, other) ==
    /\ Len(log) < MaxMerges
    /\ MergeReturns(vc, other, vclockMerge(history, tables, vc, other))

NextMerge == \E vc \in Clocks, other \in Clocks : CallMerge(vc, other)

SpecMerge == InitMerge /\ [][NextMerge]_vars

\* ------------------------------------------------------------------------
\* Properties of Merge (checked under SpecMerge)
\* ------------------------------------------------------------------------

\* the union of the identifiers of x and y, each with the larger of its
\* counters, an identifier absent from one side taking the other's counter
MaxUnion(x, y) ==
    [k \in (DOMAIN x) \cup (DOMAIN y) |->
        IF k \notin DOMAIN y THEN x[k]
        ELSE IF k \notin DOMAIN x THEN y[k]
        ELSE IF x[k] >= y[k] THEN x[k] ELSE y[k]]

\* C9: after A.Merge(B) the snapshot of A has the union of the identifiers
\* of A (before) and B, each with the maximum of its counters in A (before)
\* and B; B is unchanged; Merge of open, non-nil clocks returns no error.
C9_MergeIsMaxUnion ==
    \A i \in 1..Len(log) :
        /\ log[i].err = "nil"
        /\ log[i].selfAfter = MaxUnion(log[i].selfBefore, log[i].otherBefore)
        /\ log[i].otherAfter = IF log[i].other = log[i].vc
                               THEN log[i].selfAfter
                               ELSE log[i].otherBefore

\* C9 witness: A.Merge(B) returned where B had an identifier A lacked, a
\* shared identifier larger in B, and A had an identifier B lacked
C9_Witness ==
    /\ Len(log) = 1
    /\ log[1].vc = "A" /\ log[1].other = "B"
    /\ log[1].err = "nil"
    /\ (DOMAIN log[1].otherBefore) \ (DOMAIN log[1].selfBefore) # {}
    /\ (DOMAIN log[1].selfBefore) \ (DOMAIN log[1].otherBefore) # {}
    /\ \E k \in (DOMAIN log[1].selfBefore) \cap (DOMAIN log[1].otherBefore) :
            log[1].selfBefore[k] < log[1].otherBefore[k]
    /\ shortener["A"] = SHA256

\* the first call of Merge had two different clocks
FirstMergeOfTwo == Len(log) >= 1 /\ log[1].vc # log[1].other

\* the snapshot of other after other.Merge(vc), made instead of the first
\* call vc.Merge(other) right after construction
SwappedSnapshot ==
    SnapshotIn(vclockMerge(start.hs, start.tbl, log[1].other, log[1].vc).hs,
               vclockMerge(start.hs, start.tbl, log[1].other, log[1].vc).tbl,
               log[1].other)

\* C10: merging B into A a second time leaves the snapshot of A as it was
\* after the first merge, A.Merge(A) leaves A unchanged, and from the same
\* A and B the snapshot of A after A.Merge(B) equals the snapshot of B
\* after B.Merge(A).
C10_IdempotentCommutative ==
    /\ \A i \in 1..Len(log) :
            log[i].vc = log[i].other => log[i].selfAfter = log[i].selfBefore
    /\ \A i \in 2..Len(log) :
            (log[i].vc = log[i-1].vc /\ log[i].other = log[i-1].other)
                => log[i].selfAfter = log[i-1].selfAfter
    /\ FirstMergeOfTwo => log[1].selfAfter = SwappedSnapshot

\* C10 witness: A.Merge(B) returned twice, the first call having changed
\* both the identifiers and a counter of A
C10_Witness ==
    /\ Len(log) = 2
    /\ log[1].vc = "A" /\ log[1].other = "B"
    /\ log[2].vc = "A" /\ log[2].other = "B"
    /\ DOMAIN log[1].selfAfter # DOMAIN log[1].selfBefore
    /\ \E k \in DOMAIN log[1].selfBefore : log[1].selfAfter[k] > log[1].selfBefore[k]
    /\ log[1].selfAfter # log[1].otherBefore

\* ------------------------------------------------------------------------
\* Concurrent callers: every facade call sends its request on the request
\* channel of a clock and then receives on the response channel of that
\* clock; both channels are unbuffered and shared by all callers
\* ------------------------------------------------------------------------

\* the number of facade calls the callers make
MaxOps == 3

\* a call that sends one request r to the actor of vc
singleCall(op, vc, r) ==
    [cond |-> {}, vc |-> vc, other |-> vc, to |-> vc, r |-> r, op |-> op, last |-> TRUE]

\* a call of Merge or of a comparison: the first request is the reqSnap
\* of other.GetClock()
peerCall(op, vc, other, cond) ==
    [cond |-> cond,
     vc |-> vc,
     other |-> other,
     to |-> other,
     r |-> reqSnap,
     op |-> op,
     last |-> FALSE]

\* the calls that take the snapshot of another clock first
peerOps == {"Merge", "compare"}

\* the request Merge and compare send to vc once they hold the snapshot m
secondRequest(cl, m) ==
    IF cl.op = "Merge" THEN reqMerge(m) ELSE reqComp(m, cl.cond)

\* the rest of Merge and compare, run without any other caller: s1 is the
\* store and the response after other.GetClock()
afterSnapshot(s1, cl) ==
    IF s1.resp.e # "nil"
    THEN s1
    ELSE serve(s1.hs, s1.tbl, cl.vc, secondRequest(cl, s1.resp.c), "")

\* the facade call cl run without any other caller in the store (hs, tbl):
\* the store afterwards and the response the call returns
facadeCall(hs, tbl, cl) ==
    IF cl.op \in peerOps
    THEN afterSnapshot(GetClock(hs, tbl, cl.other), cl)
    ELSE serve(hs, tbl, cl.vc, cl.r, "")

\* a plausible slip: the actor takes the next request although the
\* response to the previous one was not received yet
selectingAlways(c) == c \in Clocks

\* a plausible slip: a clock is held for the whole of a Merge or a
\* comparison on it, so that its actor takes no request while a caller
\* of such a call is still fetching the snapshot of the other clock
selectingOutsideMerge(c) ==
    /\ actor[c].at = "select"
    /\ \A p \in Procs :
        IF pc[p] = "idle" THEN TRUE ELSE IF call[p].last THEN TRUE ELSE call[p].vc # c

\* the actor of clock c is in its select, ready to receive a request
selecting(c) == actor[c].at = "select"

\* caller p is blocked sending to the request channel of clock c
sending(p, c) == pc[p] = "send" /\ call[p].to = c

\* a plausible slip: a caller can receive from the response channel
\* before its request was taken, as it could if the request channel had
\* a buffer
receivingEarly(p, c) == pc[p] # "idle" /\ call[p].to = c

\* caller p is blocked receiving from the response channel of clock c
receiving(p, c) == pc[p] = "recv" /\ call[p].to = c

\* caller p enters the facade call cl
Invoke(p, cl) ==
    /\ pc[p] = "idle"
    /\ ops < MaxOps
    /\ pc' = [pc EXCEPT ![p] = "send"]
    /\ call' = [call EXCEPT ![p] = cl]
    /\ got' = [got EXCEPT ![p] = NoResp]
    /\ expect' = [expect EXCEPT ![p] = NoResp]
    /\ ops' = ops + 1
    /\ selfPeer' = (selfPeer \/ (~cl.last /\ cl.other = cl.vc))
    /\ UNCHANGED <<clockVars, compareVars, mergeVars, actor, seq, ticks, lifeVars, bytesVars>>

\* the sequential order: the call of p takes effect when the actor takes
\* its last request; s is the outcome of the call run on its own there
Linearize(p, last, s) ==
    IF last
    THEN /\ seq' = [tbl |-> s.tbl, hs |-> s.hs]
         /\ expect' = [expect EXCEPT ![p] = s.resp]
    ELSE UNCHANGED <<seq, expect>>

\* the actor of c has taken the request of p and served it: out is what
\* processRequest made of it; the actor is now sending the response
Received(c, p, out) ==
    /\ history' = [history EXCEPT ![c] = out.h]
    /\ tables' = out.tbl
    /\ actor' = [actor EXCEPT ![c] = [resp |-> out.resp, at |-> "send"]]
    /\ pc' = [pc EXCEPT ![p] = "recv"]
    /\ Linearize(p, call[p].last, facadeCall(seq.hs, seq.tbl, call[p]))
    /\ UNCHANGED <<maintain, shortener, compareVars, mergeVars, call, got, ops, selfPeer, ticks,
                   lifeVars, bytesVars>>

\* the select of the main loop of clock c takes the request of caller p
\* and runs processRequest up to the send of the response
Receive(c, p) ==
    /\ selecting(c)
    /\ sending(p, c)
    /\ Received(c, p, processRequest(history[c], maintain[c], shortener[c], tables,
                                     call[p].r, ""))

\* the response resp ends the call of p
lastResponse(cl, resp) == IF cl.last THEN TRUE ELSE resp.e # "nil"

\* the count of the calls of Tick that returned nil, after resp was
\* returned to the call cl
ticked(cl, resp) ==
    IF cl.op = "Tick" /\ resp.t = "respErr" /\ resp.err = "nil"
    THEN [ticks EXCEPT ![cl.r.id] = @ + 1]
    ELSE ticks

\* caller p receives the response of the actor of c and returns it
Return(c, p) ==
    /\ actor[c].at = "send"
    /\ receiving(p, c)
    /\ lastResponse(call[p], actor[c].resp)
    /\ got' = [got EXCEPT ![p] = actor[c].resp]
    /\ ticks' = ticked(call[p], actor[c].resp)
    /\ pc' = [pc EXCEPT ![p] = "idle"]
    /\ actor' = [actor EXCEPT ![c] = inSelect]
    /\ UNCHANGED <<clockVars, compareVars, mergeVars, call, expect, seq, ops, selfPeer,
                   lifeVars, bytesVars>>

\* caller p, in Merge or compare, receives the snapshot of other and goes
\* on to send its second request to its own clock
Continue(c, p) ==
    /\ actor[c].at = "send"
    /\ receiving(p, c)
    /\ ~lastResponse(call[p], actor[c].resp)
    /\ call' = [call EXCEPT ![p] = [@ EXCEPT !.r = secondRequest(call[p], actor[c].resp.c),
                                             !.to = call[p].vc,
                                             !.last = TRUE]]
    /\ pc' = [pc EXCEPT ![p] = "send"]
    /\ actor' = [actor EXCEPT ![c] = inSelect]
    /\ UNCHANGED <<clockVars, compareVars, mergeVars, got, expect, seq, ops, selfPeer, ticks,
                   lifeVars, bytesVars>>

InvokeSet(p, id, v) == Invoke(p, singleCall("Set", "A", reqSet(id, v)))
InvokeTick(p, id) == Invoke(p, singleCall("Tick", "A", reqTick(id)))
InvokeGet(p, id) == Invoke(p, singleCall("Get", "A", reqGet(id)))
getClockCall == singleCall("GetClock", "A", reqSnap)
getHistoryCall == singleCall("GetHistory", "A", reqHistory)
getFullHistoryCall == singleCall("GetFullHistory", "A", reqFullHistory)
pruneCall == singleCall("Prune", "A", reqPrune)

InvokeGetClock(p) == Invoke(p, getClockCall)
InvokeGetHistory(p) == Invoke(p, getHistoryCall)
InvokeGetFullHistory(p) == Invoke(p, getFullHistoryCall)
InvokePrune(p) == Invoke(p, pruneCall)
InvokeMerge(p, other) == Invoke(p, peerCall("Merge", "A", other, {}))
InvokeCompare(p, other, cond) == Invoke(p, peerCall("compare", "A", other, cond))

\* the clocks the concurrent callers start from: history kept or not, the
\* same shortener or different ones
InitCallers(as, bs) ==
    \E ia \in as, ib \in bs :
        /\ maintain \in {[c \in Clocks |-> b] : b \in BOOLEAN}
        /\ shortener \in [Clocks -> ShortenerNames]
        /\ history = [c \in Clocks |->
                        newClockHistory(IF c = "A" THEN ia ELSE ib, shortener[c], TRUE)]
        /\ tables = newClockTables(newClockTables(initTables, ia, shortener["A"], TRUE),
                                   ib, shortener["B"], TRUE)
        /\ IdleCompare
        /\ IdleMerge
        /\ IdleCallers
        /\ IdleLife
        /\ IdleBytes

\* ------------------------------------------------------------------------
\* Specification of concurrent Tick: the callers tick identifiers of
\* clock A, some of them unknown or empty
\* ------------------------------------------------------------------------

InitTick == InitCallers(MapsOver({"a", "b"}, 0..MaxVal), {EmptyMap})

NextTick ==
    \/ \E p \in Procs, id \in LongIds : InvokeTick(p, id)
    \/ \E c \in Clocks, p \in Procs : Receive(c, p)
    \/ \E c \in Clocks, p \in Procs : Return(c, p)

SpecTick == InitTick /\ [][NextTick]_vars

\* every call has returned
AllReturned == \A p \in Procs : pc[p] = "idle"

\* the snapshot of clock A right after construction
StartSnap == SnapshotIn(start.hs, start.tbl, "A")

\* C1: once all concurrent calls of Tick on a clock have returned, the
\* counter of every identifier is its initial value plus the number of
\* calls of Tick on it that succeeded, whatever the interleaving.
C1_NoLostTick ==
    AllReturned =>
        Snapshot("A") = [k \in DOMAIN StartSnap |-> StartSnap[k] + ticks[k]]

\* C1 witness: all calls have returned, the last call of every caller and
\* all calls together having ticked successfully, on two identifiers
C1_Witness ==
    /\ AllReturned
    /\ ops = MaxOps
    /\ \A p \in Procs : call[p].op = "Tick" /\ got[p] = noErr
    /\ ticks["a"] >= 1 /\ ticks["b"] >= 1
    /\ ticks["a"] + ticks["b"] = MaxOps

\* ------------------------------------------------------------------------
\* Specification of the concurrent use of clock A: the callers make any
\* calls on A, clock B being passed as other (as is A itself)
\* ------------------------------------------------------------------------

\* the arguments the callers pass
SetIds == {"a", "b"}
SetValues == {1}
TickIds == {"a", "c"}
GetIds == {"a", "b"}
CompareConds == {{equal}, {ancestor}}

\* the clocks A and B are constructed from
InitA == MapPut(EmptyMap, "a", 0)
InitB == MapPut(MapPut(EmptyMap, "a", 1), "c", 0)

Init == InitCallers({InitA}, {InitB})

Next ==
    \/ \E p \in Procs, id \in SetIds, v \in SetValues : InvokeSet(p, id, v)
    \/ \E p \in Procs, id \in TickIds : InvokeTick(p, id)
    \/ \E p \in Procs, id \in GetIds : InvokeGet(p, id)
    \/ \E p \in Procs : InvokeGetClock(p)
    \/ \E p \in Procs : InvokeGetHistory(p)
    \/ \E p \in Procs : InvokeGetFullHistory(p)
    \/ \E p \in Procs : InvokePrune(p)
    \/ \E p \in Procs, other \in Clocks : InvokeMerge(p, other)
    \/ \E p \in Procs, other \in Clocks, cond \in CompareConds : InvokeCompare(p, other, cond)
    \/ \E c \in Clocks, p \in Procs : Receive(c, p)
    \/ \E c \in Clocks, p \in Procs : Continue(c, p)
    \/ \E c \in Clocks, p \in Procs : Return(c, p)

Spec == Init /\ [][Next]_vars

\* the call of p has returned a response
HasReturned(p) == pc[p] = "idle" /\ got[p] # NoResp

unborn == [resp |-> NoResp, at |-> "unborn"]
closing == [resp |-> NoResp, at |-> "closing"]
done == [resp |-> NoResp, at |-> "done"]

\* the context of clock d is that of clock c or derives from it
derives(d, c) == IF d = c THEN TRUE ELSE parent[d] = c

\* the contexts after cancel() of the context of clock c: a cancelled
\* context cancels the contexts derived from it
cancelled(c) ==
    [d \in DOMAIN ctx |-> IF derives(d, c) /\ ctx[d] = "live" THEN "done" ELSE ctx[d]]

\* the context derived from that of clock c by context.WithCancel
withCancel(c) == IF ctx[c] = "live" THEN "live" ELSE "done"

\* the actor of c is in its select and its context is not cancelled
opened(c) == ctx[c] = "live" /\ actor[c].at = "select"

\* the clock is open, or its actor has noticed the cancellation and has
\* closed the channels (what a caller waits for after Close)
settled(c) == IF closedQueues(c) THEN TRUE ELSE opened(c)

\* the select of the main loop of clock c takes ctx.Done(): the actor
\* returns and its deferred function calls Close on the request channel,
\* which waits for the write lock
ActorExit(c) ==
    /\ selecting(c)
    /\ ctx[c] = "done"
    /\ actor' = [actor EXCEPT ![c] = closing]
    /\ UNCHANGED <<clockVars, compareVars, mergeVars, pc, call, got, expect, seq, ops,
                   selfPeer, ticks, lifeVars, bytesVars>>

\* Channel.Close of the request channel gets the write lock once no caller
\* holds the read lock in Send; the response channel, which nobody holds,
\* is closed next and the actor has returned
ActorClose(c) ==
    /\ actor[c].at = "closing"
    /\ \A p \in Procs : ~sending(p, c)
    /\ actor' = [actor EXCEPT ![c] = done]
    /\ UNCHANGED <<clockVars, compareVars, mergeVars, pc, call, got, expect, seq, ops,
                   selfPeer, ticks, lifeVars, bytesVars>>

\* ------------------------------------------------------------------------
\* Specification of one caller: Set, Tick, Merge, Prune, Copy and Close are
\* called one after the other on clock A and on its copy B; after Close the
\* caller waits until the actor has closed the channels
\* ------------------------------------------------------------------------

\* the number of calls made
MaxCalls == 3

\* the clock with the identifiers of the callers, as a snapshot shows it
contents(h, tbl, name) == latestWithCopy(h, tbl, name, FALSE).c

\* the contents of every clock
allContents(hs, tbl, names) == [c \in Clocks |-> contents(hs[c], tbl, names[c])]

\* the last sequence id and the number of items of every history
allItems(hs) == [c \in Clocks |-> [lastId |-> getLastId(hs[c]), n |-> Len(hs[c].items)]]

\* the clocks whose context is live
liveIn(cx) == {c \in Clocks : cx[c] = "live"}

\* a clock that was not constructed yet
notStarted == newHistory(EmptyMap, NoOp, FALSE)

InitSeq ==
    \E ia \in MapsOver({"a"}, 0..MaxVal), mh \in BOOLEAN, name \in ShortenerNames :
        /\ maintain = [c \in Clocks |-> IF c = "A" THEN mh ELSE FALSE]
        /\ shortener = [c \in Clocks |-> IF c = "A" THEN name ELSE NoOp]
        /\ history = [c \in Clocks |->
                        IF c = "A" THEN newClockHistory(ia, name, TRUE) ELSE notStarted]
        /\ tables = newClockTables(initTables, ia, name, TRUE)
        /\ ctx = [c \in Clocks |-> IF c = "A" THEN "live" ELSE "none"]
        /\ parent = [c \in Clocks |-> scope]
        /\ closeReturned = {}
        /\ late = {}
        /\ pc = [p \in Procs |-> "idle"]
        /\ call = [p \in Procs |-> NoCall]
        /\ actor = [c \in Clocks |-> IF c = "A" THEN inSelect ELSE unborn]
        /\ got = [p \in Procs |-> NoResp]
        /\ expect = [p \in Procs |-> NoResp]
        /\ seq = [tbl |-> tables, hs |-> history]
        /\ ops = 0
        /\ selfPeer = FALSE
        /\ ticks = [id \in LongIds |-> 0]
        /\ IdleCompare
        /\ IdleMerge
        /\ IdleBytes

\* the call op(id, v, other) on clock vc returned err, the store being
\* (hs, tbl) and the contexts cx afterwards
Logged(op, vc, id, v, other, err, hs, tbl, names, cx) ==
    [v |-> v,
     vc |-> vc,
     other |-> other,
     id |-> id,
     err |-> err,
     op |-> op,
     wasOpen |-> liveIn(ctx),
     isOpen |-> liveIn(cx),
     before |-> allContents(history, tables, shortener),
     after |-> allContents(hs, tbl, names),
     itemsBefore |-> allItems(history),
     itemsAfter |-> allItems(hs),
     full |-> maintain[vc]]

\* a call on clock vc returns, leaving the store (hs, tbl)
SeqReturns(op, vc, id, v, other, err, hs, tbl) ==
    /\ Len(log) < MaxCalls
    /\ settled(vc)
    /\ history' = hs
    /\ tables' = tbl
    /\ log' = Append(log, Logged(op, vc, id, v, other, err, hs, tbl, shortener, ctx))
    /\ UNCHANGED <<maintain, shortener, start, compareVars, callerVars, lifeVars, bytesVars>>

\* a call that sends one request and returns the error of the response
SeqRequest(op, vc, id, v, out) ==
    SeqReturns(op, vc, id, v, vc, out.resp.err, out.hs, out.tbl)

SeqSet(vc, id, v) == SeqRequest("Set", vc, id, v, serve(history, tables, vc, reqSet(id, v), ""))
SeqTick(vc, id) == SeqRequest("Tick", vc, id, 0, serve(history, tables, vc, reqTick(id), ""))
SeqPrune(vc) == SeqRequest("Prune", vc, "", 0, serve(history, tables, vc, reqPrune, ""))

\* vc.Merge(other) returns out
SeqMerged(vc, other, out) == SeqReturns("Merge", vc, "", 0, other, out.err, out.hs, out.tbl)

SeqMerge(vc, other) ==
    /\ IF other = nilClock THEN TRUE ELSE settled(other)
    /\ SeqMerged(vc, other, vclockMerge(history, tables, vc, other))

\* vc.Copy() failed: GetClock returned the error of s1
CopyFailed(vc, d, s1) ==
    SeqReturns("Copy", vc, "", 0, d, s1.resp.e, s1.hs, s1.tbl)

\* vc.Copy() returns the clock d, started by New from the snapshot of s1
\* with the context and the shortener of vc
Copied(vc, d, s1) ==
    /\ Len(log) < MaxCalls
    /\ history' = [s1.hs EXCEPT ![d] = newClockHistory(s1.resp.c, shortener[vc], TRUE)]
    /\ tables' = newClockTables(s1.tbl, s1.resp.c, shortener[vc], TRUE)
    /\ maintain' = [maintain EXCEPT ![d] = FALSE]
    /\ shortener' = [shortener EXCEPT ![d] = shortener[vc]]
    /\ ctx' = [ctx EXCEPT ![d] = withCancel(vc)]
    /\ parent' = [parent EXCEPT ![d] = vc]
    /\ actor' = [actor EXCEPT ![d] = inSelect]
    /\ log' = Append(log, Logged("Copy", vc, "", 0, d, "nil", history', tables', shortener', ctx'))
    /\ UNCHANGED <<start, compareVars, pc, call, got, expect, seq, ops, selfPeer, ticks,
                   closeReturned, late, bytesVars>>

\* VClock.Copy: the snapshot of vc is taken and New starts the clock d
SeqCopy(vc, d) ==
    /\ ctx[d] = "none"
    /\ settled(vc)
    /\ IF GetClock(history, tables, vc).resp.e # "nil"
       THEN CopyFailed(vc, d, GetClock(history, tables, vc))
       ELSE Copied(vc, d, GetClock(history, tables, vc))

\* VClock.Close: cancel() of the context of the clock
SeqClose(vc) ==
    /\ Len(log) < MaxCalls
    /\ settled(vc)
    /\ vc \notin closeReturned
    /\ ctx' = cancelled(vc)
    /\ closeReturned' = closeReturned \cup {vc}
    /\ log' = Append(log, Logged("Close", vc, "", 0, vc, "nil", history, tables, shortener, ctx'))
    /\ UNCHANGED <<clockVars, start, compareVars, callerVars, parent, late, bytesVars>>

\* the arguments the caller passes
SeqSetIds == {"", "a", "b"}
SeqSetValues == {1, MaxUint64}
SeqTickIds == {"", "a", "b"}
Peers == Clocks \cup {nilClock}

\* the clocks the caller holds
Started == {c \in Clocks : ctx[c] # "none"}

NextSeq ==
    \/ \E vc \in Started, id \in SeqSetIds, v \in SeqSetValues : SeqSet(vc, id, v)
    \/ \E vc \in Started, id \in SeqTickIds : SeqTick(vc, id)
    \/ \E vc \in Started, other \in Started \cup {nilClock} : SeqMerge(vc, other)
    \/ \E vc \in Started : SeqPrune(vc)
    \/ SeqCopy("A", "B")
    \/ \E vc \in Started : SeqClose(vc)
    \/ \E c \in Clocks : ActorExit(c)
    \/ \E c \in Clocks : ActorClose(c)

SpecSeq == InitSeq /\ [][NextSeq]_vars

\* ------------------------------------------------------------------------
\* Properties of Set, Tick, Merge, Prune and Copy (checked under SpecSeq)
\* ------------------------------------------------------------------------

\* the calls made on a clock that was open
OnOpen(op) == {i \in 1..Len(log) : log[i].op = op /\ log[i].vc \in log[i].wasOpen}

\* what Set(id, v) has to return and to leave, b being the snapshot before
\* and a the snapshot after the call
SetObeys(b, a, id, v, err) ==
    IF id = ""
    THEN err = errClockIdMustNotBeEmptyString /\ a = b
    ELSE IF id \in DOMAIN b
    THEN err = errAttemptToSetExistingId /\ a = b
    ELSE /\ err = "nil"
         /\ DOMAIN a = (DOMAIN b) \cup {id}
         /\ a[id] = v
         /\ \A k \in DOMAIN b : a[k] = b[k]

\* C11: Set(id, v) on an open clock returns EmptyIdentifier if id is empty,
\* AlreadyInitialised if id is present (its counter is not reassigned), and
\* otherwise succeeds, installing id with counter v and leaving the counter
\* of every other identifier unchanged.
C11_SetContract ==
    \A i \in OnOpen("Set") :
        SetObeys(log[i].before[log[i].vc], log[i].after[log[i].vc],
                 log[i].id, log[i].v, log[i].err)

\* C11 witness: on a clock using the SHA256 shortener an identifier was
\* installed by Set and a second Set of it, with another value, was refused
C11_Witness ==
    /\ Len(log) = MaxCalls
    /\ shortener["A"] = SHA256
    /\ \E i \in OnOpen("Set"), j \in OnOpen("Set") :
            /\ i < j
            /\ log[i].vc = "A" /\ log[j].vc = "A"
            /\ log[i].id = log[j].id
            /\ log[i].v # log[j].v
            /\ log[i].err = "nil"
            /\ log[j].err = errAttemptToSetExistingId
            /\ DOMAIN log[i].before["A"] # {}

\* what Tick(id) has to return and to leave
TickObeys(b, a, id, err) ==
    IF id = ""
    THEN err = errClockIdMustNotBeEmptyString /\ a = b
    ELSE IF id \notin DOMAIN b
    THEN err = errAttemptToTickUnknownId /\ a = b
    ELSE /\ err = "nil"
         /\ DOMAIN a = DOMAIN b
         /\ a[id] = b[id] + 1
         /\ \A k \in (DOMAIN b) \ {id} : a[k] = b[k]

\* C12 (as claimed): Tick(id) on an open clock returns EmptyIdentifier if id
\* is empty, UnknownIdentifier if id is absent (it is not created), and
\* otherwise succeeds, increasing the counter of id by exactly one and
\* leaving every other identifier unchanged.
C12_TickContract ==
    \A i \in OnOpen("Tick") :
        TickObeys(log[i].before[log[i].vc], log[i].after[log[i].vc], log[i].id, log[i].err)

\* the calls of Set, Tick and Merge that returned an error
Failed == {i \in 1..Len(log) : log[i].op \in {"Set", "Tick", "Merge"} /\ log[i].err # "nil"}

\* C13: whenever Set, Tick or Merge returns an error the snapshot of the
\* clock after the call is the snapshot before it, and in full-history mode
\* no history item was appended and the latest sequence id is unchanged.
C13_ErrorsChangeNothing ==
    \A i \in Failed :
        /\ log[i].after[log[i].vc] = log[i].before[log[i].vc]
        /\ log[i].full => log[i].itemsAfter[log[i].vc] = log[i].itemsBefore[log[i].vc]

\* C13 witness: on a clock keeping its history, after an event was applied,
\* a Tick of an unknown identifier and a Merge of a nil clock failed
C13_Witness ==
    /\ Len(log) = MaxCalls
    /\ maintain["A"]
    /\ log[1].err = "nil" /\ log[1].op = "Tick"
    /\ \E i \in Failed : log[i].op = "Tick" /\ log[i].err = errAttemptToTickUnknownId
                           /\ log[i].itemsBefore["A"].n = 2
    /\ \E i \in Failed : log[i].op = "Merge" /\ log[i].err = errClockMustNotBeNil

\* every identifier of x is in y with a counter that is not smaller
NotBelow(x, y) == \A k \in DOMAIN x : k \in DOMAIN y /\ y[k] >= x[k]

\* C14 (as claimed): counters never decrease: over every sequence of Set,
\* Tick, Merge and Prune (successful or failed) the counter of an identifier
\* in successive snapshots and history items does not decrease, and an
\* identifier once present is never removed.
C14_NeverDecreases ==
    /\ \A i \in 1..Len(log) : \A c \in Clocks : NotBelow(log[i].before[c], log[i].after[c])
    /\ \A c \in Clocks : \A n \in 1..(Len(history[c].items) - 1) :
            NotBelow(history[c].items[n].Clock, history[c].items[n + 1].Clock)

\* the calls i..j are successful calls of Tick(id) on one clock
TickRun(i, j) ==
    \A n \in i..j : /\ log[n].op = "Tick"
                    /\ log[n].err = "nil"
                    /\ log[n].vc = log[i].vc
                    /\ log[n].id = log[i].id

\* C15 (as claimed): n consecutive successful calls of Tick(id) leave the
\* counter of id at v + n, v being its value before them, for every v in
\* the range of the counter.
C15_TicksAdd ==
    \A i \in 1..Len(log) : \A j \in i..Len(log) :
        TickRun(i, j) =>
            log[j].after[log[i].vc][log[i].id] = log[i].before[log[i].vc][log[i].id] + (j - i + 1)

\* the calls of Copy that returned a clock
Copies == {i \in 1..Len(log) : log[i].op = "Copy" /\ log[i].err = "nil"}

\* the clocks a call is not made on
Others(i) == IF log[i].op = "Copy" THEN {} ELSE Clocks \ {log[i].vc}

\* C18 (as claimed): Copy returns a new clock whose snapshot is that of the
\* original at the time of the copy, and ticking, setting, merging into or
\* closing either of the two leaves the other one open and its snapshot
\* unchanged.
C18_CopyIndependent ==
    /\ \A i \in Copies :
            /\ log[i].after[log[i].other] = log[i].before[log[i].vc]
            /\ log[i].after[log[i].vc] = log[i].before[log[i].vc]
            /\ log[i].other \in log[i].isOpen
    /\ \A i \in 1..Len(log) : \A c \in Others(i) :
            /\ log[i].after[c] = log[i].before[c]
            /\ c \in log[i].wasOpen => c \in log[i].isOpen

\* ------------------------------------------------------------------------
\* Specification of Close under concurrent callers: the callers tick and
\* read the clocks A and B while Close is called on them or the context of
\* the application is cancelled
\* ------------------------------------------------------------------------

\* caller p enters the facade call cl and is about to take the read lock
\* of the request channel in Channel.Send
Call(p, cl) ==
    /\ pc[p] = "idle"
    /\ ops < MaxOps
    /\ pc' = [pc EXCEPT ![p] = "enter"]
    /\ call' = [call EXCEPT ![p] = cl]
    /\ got' = [got EXCEPT ![p] = NoResp]
    /\ expect' = [expect EXCEPT ![p] = NoResp]
    /\ ops' = ops + 1
    /\ late' = IF cl.to \in closeReturned THEN late \cup {p} ELSE late \ {p}
    /\ UNCHANGED <<clockVars, compareVars, mergeVars, actor, seq, selfPeer, ticks,
                   ctx, parent, closeReturned, bytesVars>>

\* Channel.Send of caller p has the read lock of the request channel of c
\* and finds the channel open: it blocks in the send, holding the lock.
\* The lock is not given while Close of the actor waits for it.
EnterOpen(c, p) ==
    /\ pc[p] = "enter"
    /\ call[p].to = c
    /\ actor[c].at \in {"select", "send"}
    /\ pc' = [pc EXCEPT ![p] = "send"]
    /\ UNCHANGED <<clockVars, compareVars, mergeVars, call, actor, got, expect, seq, ops,
                   selfPeer, ticks, lifeVars, bytesVars>>

\* Channel.Send of caller p finds the request channel of c closed: the
\* call returns errClosedVClock
EnterClosed(c, p) ==
    /\ pc[p] = "enter"
    /\ call[p].to = c
    /\ closedQueues(c)
    /\ got' = [got EXCEPT ![p] = closedResponse(call[p].r)]
    /\ pc' = [pc EXCEPT ![p] = "idle"]
    /\ UNCHANGED <<clockVars, compareVars, mergeVars, call, actor, expect, seq, ops,
                   selfPeer, ticks, lifeVars, bytesVars>>

\* VClock.Close on clock c: cancel() of its context; nothing is waited for
Close(c) ==
    /\ c \notin closeReturned
    /\ ctx' = cancelled(c)
    /\ closeReturned' = closeReturned \cup {c}
    /\ UNCHANGED <<clockVars, compareVars, mergeVars, callerVars, parent, late, bytesVars>>

\* the application cancels the context it passed to New
CancelScope ==
    /\ \E c \in Clocks : ctx[c] = "live"
    /\ ctx' = [c \in Clocks |-> IF ctx[c] = "live" THEN "done" ELSE ctx[c]]
    /\ UNCHANGED <<clockVars, compareVars, mergeVars, callerVars, parent, closeReturned,
                   late, bytesVars>>

CallTick(p, c, id) == Call(p, singleCall("Tick", c, reqTick(id)))
CallGetClock(p, c) == Call(p, singleCall("GetClock", c, reqSnap))

\* the identifiers the callers tick
LifeTickIds == {"a"}

InitLife == InitCallers({InitA}, {InitB})

\* the steps of the callers inside a call and of the actors
LifeSteps ==
    \/ \E c \in Clocks, p \in Procs : EnterOpen(c, p)
    \/ \E c \in Clocks, p \in Procs : EnterClosed(c, p)
    \/ \E c \in Clocks, p \in Procs : Receive(c, p)
    \/ \E c \in Clocks, p \in Procs : Return(c, p)
    \/ \E c \in Clocks : ActorExit(c)
    \/ \E c \in Clocks : ActorClose(c)

NextLife ==
    \/ \E p \in Procs, c \in Clocks, id \in LifeTickIds : CallTick(p, c, id)
    \/ \E p \in Procs, c \in Clocks : CallGetClock(p, c)
    \/ \E c \in Clocks : Close(c)
    \/ CancelScope
    \/ LifeSteps

SpecLife == InitLife /\ [][NextLife]_vars

\* every goroutine that can take a step is scheduled
SpecLifeFair == SpecLife /\ WF_vars(LifeSteps)

\* C16 (as claimed): once Close() has returned on a clock, every operation
\* invoked afterwards on it fails with ClosedClock (Get returns (0, false)):
\* it is not served by the actor and changes nothing.
C16_ClosedAfterClose ==
    \A p \in late :
        /\ pc[p] # "recv"
        /\ HasReturned(p) => got[p] = closedResponse(call[p].r)

\* caller p is in a call on clock c
inCall(p, c) == pc[p] # "idle" /\ call[p].to = c

\* C17 (as claimed): when the context of a clock is cancelled (by Close or
\* by the application), the actor leaves its loop and closes both channels
\* and every caller in a call on the clock returns: no caller and no Close
\* of a channel stays blocked forever.
C17_CancelEndsAll ==
    \A c \in Clocks :
        (ctx[c] = "done") ~> (closedQueues(c) /\ \A p \in Procs : ~inCall(p, c))

\* ------------------------------------------------------------------------
\* Serialisation: Bytes and FromBytes
\* ------------------------------------------------------------------------

errSerialisationMismatch == "errSerialisationMismatch"

\* IdentifierShortener.Bytes: the name of the shortener and its map from
\* shortened to original identifiers
shortenerBytes(tbl, name) == [m |-> tbl[name], name |-> name]

\* IdentifierShortener.Merge fails when the bytes are those of a shortener
\* of another name
shortenerMergeOk(name, b) == b.name = name

\* IdentifierShortener.Merge: the maps after the map in the bytes was
\* united with that of the named shortener
shortenerMerge(tbl, name, b) ==
    [tbl EXCEPT ![name] =
        [k \in (DOMAIN tbl[name]) \cup (DOMAIN b.m) |->
            IF k \in DOMAIN b.m THEN b.m[k] ELSE tbl[name][k]]]

\* the encoded struct clockSerialisation
clockSerialisation(b, c, s) == [S |-> s, B |-> b, C |-> c]

\* a plausible slip in VClock.Bytes: the clock is not put into the struct
encodedWithoutClock(resp, tbl, name) ==
    IF resp.e # "nil"
    THEN [err |-> resp.e, data |-> "nil"]
    ELSE [err |-> "nil", data |-> clockSerialisation(shortenerBytes(tbl, name), EmptyMap, name)]

\* VClock.Bytes, resp being the response to reqSnapShortenedIdentifiers:
\* the bytes of the shortener, the clock under its shortened identifiers and
\* the name of the shortener
encoded(resp, tbl, name) ==
    IF resp.e # "nil"
    THEN [err |-> resp.e, data |-> "nil"]
    ELSE [err |-> "nil", data |-> clockSerialisation(shortenerBytes(tbl, name), resp.c, name)]

Bytes(hs, tbl, vc) ==
    encoded(serve(hs, tbl, vc, reqSnapShortenedIdentifiers, "").resp, tbl, shortener[vc])

\* fromBytes: the shortener the decoded clock is to use
desiredName(shortenerName) ==
    IF shortenerName = "" THEN getDefaultShortenerName ELSE shortenerName

\* fromBytes returns no clock
notDecoded(tbl, err) == [name |-> NoOp, tbl |-> tbl, err |-> err, h |-> notStarted]

\* fromBytes returns the clock newClock starts from the clock init
decodedBy(tbl, init, name, applyShortenerToInit) ==
    [name |-> name,
     tbl |-> newClockTables(tbl, init, name, applyShortenerToInit),
     err |-> "nil",
     h |-> newClockHistory(init, name, applyShortenerToInit)]

\* fromBytes, mutated: the shortened identifiers are kept when the
\* shorteners differ
recoverKeysKept(cs, tbl) == [c |-> cs.C, e |-> "nil"]

\* fromBytes: the loop that recovers the identifiers of cs.C from the
\* source shortener
recoverKeys(cs, tbl) == copyMapRecover(cs.C, tbl, cs.S)

\* fromBytes when the desired shortener differs from that of the bytes:
\* newC holds the recovered identifiers, which newClock shortens again
fromBytesRecovered(tbl, newC, name) ==
    IF newC.e # "nil"
    THEN notDecoded(tbl, newC.e)
    ELSE decodedBy(tbl, newC.c, name, TRUE)

\* fromBytes when the shorteners are the same: the map of the bytes is
\* merged and the clock is used as it is
fromBytesMerged(tbl, cs, name) ==
    IF shortenerMergeOk(cs.S, cs.B)
    THEN decodedBy(shortenerMerge(tbl, cs.S, cs.B), cs.C, name, FALSE)
    ELSE notDecoded(tbl, errSerialisationMismatch)

\* fromBytes in a process whose shorteners hold the maps tbl
fromBytes(tbl, cs, shortenerName) ==
    IF cs.S # desiredName(shortenerName)
    THEN fromBytesRecovered(tbl, recoverKeys(cs, tbl), desiredName(shortenerName))
    ELSE fromBytesMerged(tbl, cs, desiredName(shortenerName))

\* ------------------------------------------------------------------------
\* Specification of serialisation: one caller sets and ticks clock A, may
\* close it, and decodes the bytes of A either in the process of A or in a
\* second process, whose shorteners have shortened nothing
\* ------------------------------------------------------------------------

local == "local"
Processes == {local, "remote"}

\* the maps of the shorteners of process proc
tablesOf(proc) == IF proc = local THEN tables ELSE remote

\* the names FromBytes is called with
DesiredNames == ShortenerNames \cup {""}

\* the snapshot of a decoded clock
decodedContents(out) ==
    IF out.err = "nil" THEN contents(out.h, out.tbl, out.name) ELSE EmptyMap

\* the caller's record of vc.Bytes() followed by FromBytes in process proc
Decoded(vc, desired, proc, b, out) ==
    [vc |-> vc,
     err |-> out.err,
     op |-> "FromBytes",
     proc |-> proc,
     desired |-> desired,
     source |-> shortener[vc],
     knew |-> tablesOf(proc),
     sent |-> contents(history[vc], tables, shortener[vc]),
     decoded |-> decodedContents(out)]

\* vc.Bytes() failed
BytesFailed(vc, b) ==
    /\ log' = Append(log, [vc |-> vc, err |-> b.err, op |-> "Bytes"])
    /\ UNCHANGED <<clockVars, start, compareVars, callerVars, lifeVars, bytesVars>>

\* FromBytes(ctx, data, desired) returned out in process proc
FromBytesReturns(vc, desired, proc, b, out) ==
    /\ log' = Append(log, Decoded(vc, desired, proc, b, out))
    /\ tables' = IF proc = local THEN out.tbl ELSE tables
    /\ remote' = IF proc = local THEN remote ELSE out.tbl
    /\ UNCHANGED <<history, maintain, shortener, start, compareVars, callerVars, lifeVars>>

\* the bytes b of clock vc are decoded in process proc
RoundTripOf(vc, desired, proc, b) ==
    IF b.err # "nil"
    THEN BytesFailed(vc, b)
    ELSE FromBytesReturns(vc, desired, proc, b, fromBytes(tablesOf(proc), b.data, desired))

\* b, _ := vc.Bytes(); FromBytes(ctx, b, desired)
RoundTrip(vc, desired, proc) ==
    /\ Len(log) < MaxCalls
    /\ settled(vc)
    /\ RoundTripOf(vc, desired, proc, Bytes(history, tables, vc))

\* the arguments the caller passes
BytesSetIds == {"b"}
BytesSetValues == {1}
BytesTickIds == {"a"}

InitBytes == InitSeq

NextBytes ==
    \/ \E id \in BytesSetIds, v \in BytesSetValues : SeqSet("A", id, v)
    \/ \E id \in BytesTickIds : SeqTick("A", id)
    \/ SeqClose("A")
    \/ ActorExit("A")
    \/ ActorClose("A")
    \/ \E desired \in DesiredNames, proc \in Processes : RoundTrip("A", desired, proc)

SpecBytes == InitBytes /\ [][NextBytes]_vars

\* the round trips the caller made
RoundTrips == {i \in 1..Len(log) : log[i].op = "FromBytes"}

\* C19: the bytes of an open clock, decoded in the process of the clock
\* under any registered shortener name (the name of the clock or another,
\* "" standing for NoOp), give a clock whose snapshot is that of the clock.
C19_RoundTrip ==
    \A i \in RoundTrips :
        log[i].proc = local =>
            /\ log[i].err = "nil"
            /\ log[i].decoded = log[i].sent

\* a clock of two identifiers was decoded under the shortener it uses and
\* under the other one
C19_Witness ==
    /\ \E i \in RoundTrips :
        /\ log[i].proc = local
        /\ log[i].source = SHA256
        /\ desiredName(log[i].desired) = NoOp
        /\ DOMAIN log[i].decoded = {"a", "b"}
    /\ \E i \in RoundTrips :
        /\ log[i].proc = local
        /\ log[i].source = desiredName(log[i].desired)
        /\ log[i].decoded # EmptyMap

\* C20 (as claimed): the bytes of a clock, decoded in a process whose
\* shorteners hold none of the identifiers of the clock, give a clock whose
\* snapshot is that of the clock, whether the desired shortener is that of
\* the clock or another one.
C20_CrossProcess ==
    \A i \in RoundTrips :
        log[i].proc # local =>
            /\ log[i].err = "nil"
            /\ log[i].decoded = log[i].sent

\* ------------------------------------------------------------------------
\* Specification of one caller and three clocks: the twins A and B are
\* started from the same clock and differ either in the shortener or in
\* whether history is kept, and the caller makes every call on both; P is
\* a peer the twins are merged and compared with, which may be closed
\* ------------------------------------------------------------------------

\* the largest counter of the initial clocks and the number of calls
MaxObsVal == 1
MaxObs == 3

Twins == {"A", "B"}
peer == "P"
ObsClocks == Twins \cup {peer}

\* how the twins are started
TwinConfigs ==
    {[nameA |-> SHA256, mhA |-> mh, nameB |-> NoOp, mhB |-> mh] : mh \in BOOLEAN}
    \cup {[nameA |-> n, mhA |-> TRUE, nameB |-> n, mhB |-> FALSE] : n \in ShortenerNames}

\* what VClock.LastUpdate returns for the response g
lastUpdateReturned(g) == IF g.e # "nil" THEN respGetter("", 0, g.e) ELSE g

\* what VClock.LastUpdate can return: the loop over the map of the actor
\* can end with any identifier of lastUpdateIds
lastUpdateResults(hs, tbl, c) ==
    IF closedQueues(c)
    THEN {closedLastUpdate}
    ELSE {lastUpdateReturned(serve(hs, tbl, c, reqLastUpdate, pick).resp) :
            pick \in lastUpdateIds(latest(hs[c]))}

\* the calls of the caller
setCall(id, v) == [other |-> nilClock, r |-> reqSet(id, v), op |-> "Set"]
tickCall(id) == [other |-> nilClock, r |-> reqTick(id), op |-> "Tick"]
getCall(id) == [other |-> nilClock, r |-> reqGet(id), op |-> "Get"]
readCall(op, r) == [other |-> nilClock, r |-> r, op |-> op]
mergeCall(other) == [other |-> other, r |-> reqMerge(EmptyMap), op |-> "Merge"]
compareCall(other, cond) == [other |-> other, r |-> reqComp(EmptyMap, cond), op |-> "compare"]

ReadCalls ==
    {readCall("GetClock", reqSnap), readCall("GetHistory", reqHistory),
     readCall("GetFullHistory", reqFullHistory), readCall("LastUpdate", reqLastUpdate),
     readCall("Prune", reqPrune), readCall("Bytes", reqSnapShortenedIdentifiers)}

peerOpNames == {"Merge", "compare"}

\* the store after a call and what the call returned
called(s, res) == [tbl |-> s.tbl, res |-> res, hs |-> s.hs]

\* Merge and the comparisons return s
peerCalled(s) == called(s, [err |-> s.err, ret |-> s.ret])

\* a call that sends one request returns the response, s being the store
\* and the response after the actor served the request
requested(hs, tbl, c, cl, s) ==
    CASE cl.op = "LastUpdate" -> called(s, lastUpdateResults(hs, tbl, c))
      [] cl.op = "Bytes" -> called(s, Bytes(hs, tbl, c))
      [] OTHER -> called(s, s.resp)

\* the call cl made on clock c in the store (hs, tbl)
facade(hs, tbl, c, cl) ==
    CASE cl.op = "Merge" -> peerCalled(vclockMerge(hs, tbl, c, cl.other))
      [] cl.op = "compare" -> peerCalled(vclockCompare(hs, tbl, c, cl.other, cl.r.cond))
      [] OTHER -> requested(hs, tbl, c, cl, serve(hs, tbl, c, cl.r, ""))

\* the events applied to each clock since it was started (all) and since
\* it was started or pruned (n), before any call
noEvents == [c \in ObsClocks |-> [n |-> 0, all |-> 0]]

eventNames == {"Set", "Tick", "Merge"}

\* the events counted so far
counted == IF log = << >> THEN noEvents ELSE log[1].events

\* the events of clock c after the call cl returned res
countedAfter(c, cl, res) ==
    IF res.err # "nil"
    THEN counted[c]
    ELSE IF cl.op = "Prune"
         THEN [n |-> 0, all |-> counted[c].all]
         ELSE [n |-> counted[c].n + 1, all |-> counted[c].all + 1]

\* the events of every clock after the call cl returned res[c] on the
\* clocks c of on
countedAll(cl, on, res) ==
    [c \in ObsClocks |->
        IF c \in on /\ cl.op \in eventNames \cup {"Prune"}
        THEN countedAfter(c, cl, res[c])
        ELSE counted[c]]

\* the caller's record of the call cl made on the clocks of on, which
\* returned res and left the store (hs, tbl)
Observed(cl, on, res, hs, tbl) ==
    [tbl |-> tbl,
     res |-> res,
     hs |-> hs,
     cl |-> cl,
     wasOpen |-> {c \in ObsClocks : ~closedQueues(c)},
     events |-> countedAll(cl, on, res),
     on |-> on,
     wasHs |-> history,
     wasTbl |-> tables]

\* the call returns
ObsReturns(cl, on, res, hs, tbl) ==
    /\ history' = hs
    /\ tables' = tbl
    /\ ops' = ops + 1
    /\ log' = << Observed(cl, on, res, hs, tbl) >>
    /\ UNCHANGED <<maintain, shortener, start, compareVars, pc, call, actor, got, expect, seq,
                   selfPeer, ticks, lifeVars, bytesVars>>

\* the call was made on A, leaving sA, and then on B, leaving sB
TwinReturns(cl, sA, sB) ==
    ObsReturns(cl, Twins, [c \in Twins |-> IF c = "A" THEN sA.res ELSE sB.res], sB.hs, sB.tbl)

TwinSecond(cl, sA) == TwinReturns(cl, sA, facade(sA.hs, sA.tbl, "B", cl))

\* the caller makes the call cl on A and then on B
TwinCall(cl) ==
    /\ ops < MaxObs
    /\ \A c \in Twins : settled(c)
    /\ IF cl.op \in peerOpNames /\ cl.other # nilClock THEN settled(cl.other) ELSE TRUE
    /\ TwinSecond(cl, facade(history, tables, "A", cl))

PeerReturns(cl, s) == ObsReturns(cl, {peer}, [c \in {peer} |-> s.res], s.hs, s.tbl)

\* the caller makes the call cl on the peer
PeerCall(cl) ==
    /\ ops < MaxObs
    /\ settled(peer)
    /\ PeerReturns(cl, facade(history, tables, peer, cl))

\* the arguments of the caller
ObsCallIds == {"", "a", "ab"}
ObsSetValues == {1}
ObsPeers == {peer, nilClock}
PeerGetIds == {"a"}

\* the identifiers of the initial clocks of the twins and of the peer
TwinIds == {"ab"}
PeerIds == {"a", "ab"}

InitObs ==
    \E cfg \in TwinConfigs, ia \in MapsOver(TwinIds, 0..MaxObsVal), ip \in MapsOver(PeerIds, {0}) :
        /\ maintain = [c \in ObsClocks |->
                        IF c = "A" THEN cfg.mhA ELSE IF c = "B" THEN cfg.mhB ELSE FALSE]
        /\ shortener = [c \in ObsClocks |->
                        IF c = "A" THEN cfg.nameA ELSE IF c = "B" THEN cfg.nameB ELSE NoOp]
        /\ history = [c \in ObsClocks |->
                        newClockHistory(IF c = peer THEN ip ELSE ia, shortener[c], TRUE)]
        /\ tables = newClockTables(
                        newClockTables(newClockTables(initTables, ia, cfg.nameA, TRUE),
                                       ia, cfg.nameB, TRUE),
                        ip, NoOp, TRUE)
        /\ ctx = [c \in ObsClocks |-> "live"]
        /\ parent = [c \in ObsClocks |-> scope]
        /\ closeReturned = {}
        /\ late = {}
        /\ pc = [p \in Procs |-> "idle"]
        /\ call = [p \in Procs |-> NoCall]
        /\ actor = [c \in ObsClocks |-> inSelect]
        /\ got = [p \in Procs |-> NoResp]
        /\ expect = [p \in Procs |-> NoResp]
        /\ seq = [tbl |-> tables, hs |-> history]
        /\ ops = 0
        /\ selfPeer = FALSE
        /\ ticks = [id \in LongIds |-> 0]
        /\ IdleCompare
        /\ IdleMerge
        /\ IdleBytes

NextObs ==
    \/ \E id \in ObsCallIds, v \in ObsSetValues : TwinCall(setCall(id, v))
    \/ \E id \in ObsCallIds : TwinCall(tickCall(id))
    \/ \E id \in ObsCallIds : TwinCall(getCall(id))
    \/ \E cl \in ReadCalls : TwinCall(cl)
    \/ \E other \in ObsPeers : TwinCall(mergeCall(other))
    \/ \E other \in ObsPeers, cond \in Conditions : TwinCall(compareCall(other, {cond}))
    \/ \E id \in PeerGetIds : PeerCall(getCall(id))
    \/ Close(peer)
    \/ ActorExit(peer)
    \/ ActorClose(peer)

SpecObs == InitObs /\ [][NextObs]_vars

\* ------------------------------------------------------------------------
\* Properties of the calls on the twins and on the peer
\* ------------------------------------------------------------------------

\* what the actor of clock c answers to r in the store (hs, tbl)
answerIn(hs, tbl, c, r) == processRequest(hs[c], maintain[c], shortener[c], tbl, r, "").resp

\* what GetClock, GetHistory and GetFullHistory return on the open clock
\* c in the store (hs, tbl)
snapshotIn(hs, tbl, c) == answerIn(hs, tbl, c, reqSnap).c
historyIn(hs, tbl, c) == answerIn(hs, tbl, c, reqHistory)
fullHistoryIn(hs, tbl, c) == answerIn(hs, tbl, c, reqFullHistory)

\* the sequence id of the last item GetFullHistory would return
lastSeqIdIn(hs, tbl, c) ==
    fullHistoryIn(hs, tbl, c).h[Len(fullHistoryIn(hs, tbl, c).h)].HistoryId

\* the last call, if it was made on clock c
LastCallOn(c) == IF log = << >> THEN FALSE ELSE c \in log[1].on

\* the twins differ in the shortener only, resp. in the history mode only
ShortenerTwins == shortener["A"] # shortener["B"] /\ maintain["A"] = maintain["B"]
HistoryTwins == shortener["A"] = shortener["B"] /\ maintain["A"] # maintain["B"]

\* the calls whose result shows the history, resp. the stored keys
historyCalls == {"GetHistory", "GetFullHistory"}

\* C21 (as claimed): a clock with the SHA256 shortener and a clock with
\* NoOp, started from the same clock and given the same calls, return the
\* same errors and the same Get, snapshot, history, full history,
\* LastUpdate and comparison results.
C21_ShortenerTransparent ==
    (ShortenerTwins /\ LastCallOn("A") /\ LastCallOn("B")) =>
        (log[1].cl.op # "Bytes" => log[1].res["A"] = log[1].res["B"])

\* C22: with history kept, after n successful Set, Tick and Merge calls
\* since the clock was started or last pruned, GetFullHistory returns n+1
\* items with the sequence ids 0..n in order, the first without an event,
\* and GetHistory returns the clocks of these items, the last of which is
\* the snapshot.
C22_HistoryContiguous ==
    \A c \in Twins :
        maintain[c] =>
            /\ fullHistoryIn(history, tables, c).e = "nil"
            /\ Len(fullHistoryIn(history, tables, c).h) = counted[c].n + 1
            /\ \A i \in 1..(counted[c].n + 1) :
                /\ fullHistoryIn(history, tables, c).h[i].HistoryId = i - 1
                /\ (fullHistoryIn(history, tables, c).h[i].Change = NoEvent) <=> (i = 1)
            /\ historyIn(history, tables, c).e = "nil"
            /\ historyIn(history, tables, c).h = clocksOf(fullHistoryIn(history, tables, c)).h
            /\ historyIn(history, tables, c).h[counted[c].n + 1] = snapshotIn(history, tables, c)

\* two events were applied to a clock that keeps history, and the last
\* call was a call that failed or a read
C22_Witness ==
    /\ log # << >>
    /\ \E c \in Twins :
        /\ maintain[c]
        /\ counted[c].n = 2
        /\ log[1].cl.op \notin eventNames

\* the last call was a successful Prune of clock c
Pruned(c) ==
    /\ LastCallOn(c)
    /\ log[1].cl.op = "Prune"
    /\ log[1].res[c].err = "nil"

\* C23: with history kept, a successful Prune leaves the snapshot as it
\* was, GetHistory then returns that snapshot alone and GetFullHistory one
\* item with sequence id 0 and no event; the events after a Prune are
\* numbered from 1 again.
C23_PruneKeepsLatest ==
    \A c \in Twins :
        maintain[c] =>
            /\ Pruned(c) =>
                /\ snapshotIn(history, tables, c) = snapshotIn(log[1].wasHs, log[1].wasTbl, c)
                /\ historyIn(history, tables, c).h
                        = << snapshotIn(log[1].wasHs, log[1].wasTbl, c) >>
                /\ Len(fullHistoryIn(history, tables, c).h) = 1
                /\ fullHistoryIn(history, tables, c).h[1].HistoryId = 0
                /\ fullHistoryIn(history, tables, c).h[1].Change = NoEvent
            /\ lastSeqIdIn(history, tables, c) = counted[c].n

\* a clock that keeps history and holds two events was pruned
C23_Witness ==
    \E c \in Twins :
        /\ maintain[c]
        /\ Pruned(c)
        /\ counted[c].all = 2
        /\ Len(log[1].wasHs[c].items) = 3

\* C24: a clock that keeps history and one that does not, started from
\* the same clock and given the same calls, return the same error for
\* every call and the same Get, snapshot, LastUpdate, Bytes and
\* comparison results.
C24_ModesEquivalent ==
    (HistoryTwins /\ LastCallOn("A") /\ LastCallOn("B")) =>
        (log[1].cl.op \notin historyCalls => log[1].res["A"] = log[1].res["B"])

\* after an event, the twins of the two history modes answered a
\* LastUpdate, a Bytes or a comparison
C24_Witness ==
    /\ HistoryTwins
    /\ LastCallOn("A")
    /\ log[1].cl.op \in {"LastUpdate", "Bytes", "compare"}
    /\ counted["A"].all >= 1
    /\ counted["B"].all >= 1

\* the clocks that do not keep history and are open
LatestOnly == {c \in ObsClocks : ~maintain[c] /\ ~closedQueues(c)}

\* C25: a clock that does not keep history never holds more than the
\* latest clock: GetHistory returns the snapshot alone and GetFullHistory
\* one item.
C25_LatestOnlyOneItem ==
    \A c \in LatestOnly :
        /\ historyIn(history, tables, c).e = "nil"
        /\ historyIn(history, tables, c).h = << snapshotIn(history, tables, c) >>
        /\ Len(fullHistoryIn(history, tables, c).h) = 1

\* two events were applied to a clock that does not keep history
C25_Witness ==
    \E c \in LatestOnly :
        /\ counted[c].all = 2
        /\ Len(history[c].items) = 2

\* the last call applied an event to clock c
Applied(c) ==
    /\ LastCallOn(c)
    /\ log[1].cl.op \in eventNames
    /\ log[1].res[c].err = "nil"

\* C26 (as claimed): in a clock that does not keep history the sequence
\* id of the item GetFullHistory returns goes up by one with every event
\* applied.
C26_SeqIdAdvances ==
    \A c \in Twins :
        (~maintain[c] /\ Applied(c)) =>
            lastSeqIdIn(history, tables, c)
                = lastSeqIdIn(log[1].wasHs, log[1].wasTbl, c) + 1

\* the result g of LastUpdate names an identifier of the largest counter
\* of the clock snap
LatestOf(g, snap) ==
    IF snap = EmptyMap
    THEN g.id = "" /\ g.v = 0
    ELSE /\ g.e = "nil"
         /\ g.id \in DOMAIN snap
         /\ g.v = snap[g.id]
         /\ \A k \in DOMAIN snap : snap[k] <= g.v

\* C28 (as claimed): LastUpdate on an open clock returns ("", 0) for the
\* empty clock and otherwise an identifier of the snapshot, in long form,
\* with its counter, which is the largest of the snapshot.
C28_LastUpdateIsMax ==
    \A c \in Twins :
        (LastCallOn(c) /\ log[1].cl.op = "LastUpdate") =>
            \A g \in log[1].res[c] : LatestOf(g, snapshotIn(log[1].wasHs, log[1].wasTbl, c))

\* the response g to Get(id) on a clock whose snapshot was snap
GetAgrees(g, id, snap) ==
    IF id \in DOMAIN snap
    THEN g.b /\ g.v = snap[id]
    ELSE ~g.b /\ g.v = 0

\* C29: Get(id) on an open clock returns the counter of id in the
\* snapshot and true, or (0, false) when id is not in the snapshot or is
\* empty, and leaves snapshot and history as they were; on a closed clock
\* it returns (0, false).
C29_GetAgreesWithSnapshot ==
    \A c \in ObsClocks :
        (LastCallOn(c) /\ log[1].cl.op = "Get") =>
            IF c \in log[1].wasOpen
            THEN /\ GetAgrees(log[1].res[c], log[1].cl.r.id,
                              snapshotIn(log[1].wasHs, log[1].wasTbl, c))
                 /\ log[1].cl.r.id = "" => ~log[1].res[c].b
                 /\ snapshotIn(log[1].hs, log[1].tbl, c)
                        = snapshotIn(log[1].wasHs, log[1].wasTbl, c)
                 /\ fullHistoryIn(log[1].hs, log[1].tbl, c)
                        = fullHistoryIn(log[1].wasHs, log[1].wasTbl, c)
            ELSE ~log[1].res[c].b /\ log[1].res[c].v = 0

\* Get found an identifier with a counter above 0 in a clock that uses
\* SHA256
C29_Witness ==
    \E c \in Twins :
        /\ LastCallOn(c)
        /\ log[1].cl.op = "Get"
        /\ shortener[c] = SHA256
        /\ log[1].res[c].b
        /\ log[1].res[c].v >= 1

\* the last call was a Merge or a comparison with a nil peer, resp. with
\* a peer that is closed
NilPeer == LastCallOn("A") /\ log[1].cl.op \in peerOpNames /\ log[1].cl.other = nilClock
ClosedPeer ==
    /\ LastCallOn("A")
    /\ log[1].cl.op \in peerOpNames
    /\ log[1].cl.other = peer
    /\ peer \notin log[1].wasOpen

\* C30: Merge and the comparisons return errClockMustNotBeNil for a nil
\* peer and errClosedVClock for a closed peer; the actor of the receiver
\* gets no request, its history and the shortener maps are as they were,
\* and the receiver stays open.
C30_NilAndClosedPeer ==
    /\ NilPeer => \A c \in Twins : log[1].res[c].err = errClockMustNotBeNil
    /\ ClosedPeer => \A c \in Twins : log[1].res[c].err = errClosedVClock
    /\ (IF NilPeer THEN TRUE ELSE ClosedPeer) =>
            /\ \A c \in Twins : ~log[1].res[c].ret
            /\ \A c \in Twins : log[1].hs[c] = log[1].wasHs[c]
            /\ log[1].tbl = log[1].wasTbl
            /\ \A c \in Twins : opened(c)

\* a clock that does not keep history, and whose actor would prune on any
\* request, was merged with the closed peer
C30_Witness ==
    /\ ClosedPeer
    /\ log[1].cl.op = "Merge"
    /\ \E c \in Twins : ~maintain[c] /\ getLastId(history[c]) = 1

\* ------------------------------------------------------------------------
\* Specification of the example ExampleNewShowingTick: the processes A, B
\* and C hold the clocks {a:0}, {b:0} and {c:0} and exchange their clocks.
\* After the transfer C->B two goroutines run side by side, one making
\* the transfers B->A, A->B, B->C, C->A and one the transfers B->C, C->A
\* ------------------------------------------------------------------------

Nodes == {"A", "B", "C"}

\* the identifier of each process
idOf == [n \in Nodes |-> IF n = "A" THEN "a" ELSE IF n = "B" THEN "b" ELSE "c"]

transferTo(from, to) == [from |-> from, to |-> to]

\* the notifications of the example: the first one and the list of its
\* first successor are handled by p1, the list of its second by p2
firstBranch ==
    << transferTo("C", "B"), transferTo("B", "A"), transferTo("A", "B"),
       transferTo("B", "C"), transferTo("C", "A") >>
secondBranch == << transferTo("B", "C"), transferTo("C", "A") >>

plan(p) == IF p = "p1" THEN firstBranch ELSE secondBranch

\* goroutine p has made all its transfers
finished(p) == pc[p].i > Len(plan(p))

\* the transfer goroutine p is making
current(p) == plan(p)[pc[p].i]

\* goroutine p is at step k of a transfer; the second goroutine is
\* started when the first transfer was made
atStep(p, k) ==
    /\ ~finished(p)
    /\ pc[p].k = k
    /\ IF p = "p1" THEN TRUE ELSE pc["p1"].i > 1

\* a step of a transfer was made and left the store s
Stepped(p, s, i, k, held) ==
    /\ history' = s.hs
    /\ tables' = s.tbl
    /\ pc' = [pc EXCEPT ![p] = [i |-> i, k |-> k]]
    /\ got' = [got EXCEPT ![p] = held]
    /\ UNCHANGED <<maintain, shortener, compareVars, mergeVars, call, actor, expect, seq, ops,
                   selfPeer, ticks, lifeVars, bytesVars>>

\* send: from.vc.Tick(from.id)
SendTick(p) ==
    /\ atStep(p, 1)
    /\ Stepped(p, serve(history, tables, current(p).from, reqTick(idOf[current(p).from]), ""),
               pc[p].i, 2, got[p])

\* send: b, _ := from.vc.Bytes()
SendBytes(p) ==
    /\ atStep(p, 2)
    /\ Stepped(p, serve(history, tables, current(p).from, reqSnapShortenedIdentifiers, ""),
               pc[p].i, 3, Bytes(history, tables, current(p).from).data)

\* recv: to.vc.Tick(to.id)
RecvTick(p) ==
    /\ atStep(p, 3)
    /\ Stepped(p, serve(history, tables, current(p).to, reqTick(idOf[current(p).to]), ""),
               pc[p].i, 4, got[p])

\* the store after FromBytes returned out
decodedIn(out) == [tbl |-> out.tbl, hs |-> history]

\* recv: vc, _ := FromBytes(ctx, b, "")
RecvFromBytes(p) ==
    /\ atStep(p, 4)
    /\ Stepped(p, decodedIn(fromBytes(tables, got[p], "")), pc[p].i, 5,
               fromBytes(tables, got[p], ""))

\* the store and the response after GetClock of the decoded clock vc
snapshotOfDecoded(vc) ==
    [tbl |-> tables,
     resp |-> clockResponse(latestWithCopy(vc.h, tables, vc.name, FALSE)),
     hs |-> history]

\* recv: to.vc.Merge(vc)
RecvMerge(p) ==
    /\ atStep(p, 5)
    /\ Stepped(p, mergeWith(snapshotOfDecoded(got[p]), current(p).to), pc[p].i + 1, 1, NoResp)

InitExchange ==
    /\ maintain = [n \in Nodes |-> FALSE]
    /\ shortener = [n \in Nodes |-> getDefaultShortenerName]
    /\ history = [n \in Nodes |->
                    newClockHistory([k \in {idOf[n]} |-> 0], getDefaultShortenerName, TRUE)]
    /\ tables = newClockTables(initTables, [k \in {"a", "b", "c"} |-> 0],
                               getDefaultShortenerName, TRUE)
    /\ ctx = [n \in Nodes |-> "live"]
    /\ parent = [n \in Nodes |-> scope]
    /\ closeReturned = {}
    /\ late = {}
    /\ pc = [p \in Procs |-> [i |-> 1, k |-> 1]]
    /\ call = [p \in Procs |-> NoCall]
    /\ actor = [n \in Nodes |-> inSelect]
    /\ got = [p \in Procs |-> NoResp]
    /\ expect = [p \in Procs |-> NoResp]
    /\ seq = [tbl |-> tables, hs |-> history]
    /\ ops = 0
    /\ selfPeer = FALSE
    /\ ticks = [id \in LongIds |-> 0]
    /\ IdleCompare
    /\ IdleMerge
    /\ IdleBytes

NextExchange ==
    \/ \E p \in Procs : SendTick(p)
    \/ \E p \in Procs : SendBytes(p)
    \/ \E p \in Procs : RecvTick(p)
    \/ \E p \in Procs : RecvFromBytes(p)
    \/ \E p \in Procs : RecvMerge(p)

SpecExchange == InitExchange /\ [][NextExchange]_vars

\* the clock the example prints
exampleOutput == [k \in {"a", "b", "c"} |-> IF k = "a" THEN 4 ELSE 5]

\* C27: when the transfers C->B, B->A, B->C, A->B, C->A, B->C, C->A were
\* made, one after the other or the two branches after C->B side by side
\* in any interleaving of their steps, the snapshot of A is {a:4, b:5, c:5}.
C27_ExchangeOutput ==
    (\A p \in Procs : finished(p)) =>
        contents(history["A"], tables, shortener["A"]) = exampleOutput

\* all transfers were made
C27_Witness ==
    /\ \A p \in Procs : finished(p)
    /\ contents(history["C"], tables, shortener["C"])["c"] = 5

\* ------------------------------------------------------------------------
\* Further properties of the comparisons (checked under SpecCompare)
\* ------------------------------------------------------------------------

\* C31 (as claimed): A.DescendsFrom(B) does not return true when an
\* identifier of A is missing from B or has a larger counter in A than in
\* B.
C31_DescendsFromSound ==
    cmpResult["DescendsFrom"] = "true" => Dominated(SelfSnap, OtherSnap)

\* what the peer answers when it is asked for the relation cond to A
Converse(cond) == vclockCompare(history, tables, peerOf, "A", cond).ret

\* C35 (as claimed): A.DescendsFrom(B) returns true exactly when
\* B.AncestorOf(A) returns true.
C35_DescendsAncestorDual == Returned("DescendsFrom", Converse({ancestor}))

\* C36 (as claimed): A.Equal(B) = B.Equal(A) and A.Concurrent(B) =
\* B.Concurrent(A).
C36_EqualConcurrentSymmetric ==
    /\ Returned("Equal", Converse({equal}))
    /\ Returned("Concurrent", Converse({concurrent}))

\* the part of C36 that concerns Equal
C36_EqualSymmetric == Returned("Equal", Converse({equal}))

\* ------------------------------------------------------------------------
\* Specification of the comparison under a mask of conditions: clock A is
\* asked whether its peer stands in one of the relations of the mask
\* ------------------------------------------------------------------------

\* the non-empty masks
Masks == (SUBSET Conditions) \ {{}}

InitMask ==
    \E ia \in InitClocks, ib \in InitClocks :
        /\ maintain = [c \in Clocks |-> FALSE]
        /\ shortener = [c \in Clocks |-> getDefaultShortenerName]
        /\ history = [c \in Clocks |->
                        newClockHistory(IF c = "A" THEN ia ELSE ib, shortener[c], TRUE)]
        /\ tables = newClockTables(newClockTables(initTables, ia, NoOp, TRUE), ib, NoOp, TRUE)
        /\ peerOf \in Clocks
        /\ cmpResult = NoCall
        /\ IdleMerge
        /\ IdleCallers
        /\ IdleLife
        /\ IdleBytes

\* A.compare(peer, cond) returns out
MaskReturns(cond, out) ==
    /\ cmpResult' = [cond |-> cond, err |-> out.err, op |-> "compare", ret |-> out.ret]
    /\ history' = out.hs
    /\ tables' = out.tbl
    /\ UNCHANGED <<maintain, shortener, peerOf, mergeVars, callerVars, lifeVars, bytesVars>>

CallMasked(cond) ==
    /\ cmpResult = NoCall
    /\ MaskReturns(cond, vclockCompare(history, tables, "A", peerOf, cond))

NextMask == \E cond \in Masks : CallMasked(cond)

SpecMask == InitMask /\ [][NextMask]_vars

\* what A answers for the single condition c
Single(c) == vclockCompare(history, tables, "A", peerOf, {c}).ret

\* C33 (as claimed): the comparison under a mask returns true exactly
\* when the comparison under one of the conditions of the mask does.
C33_MaskDisjunctive ==
    cmpResult # NoCall => (cmpResult.ret <=> \E c \in cmpResult.cond : Single(c))

\* one half of C33: a mask answers true only if one of its conditions does
C33_MaskOnlyIf ==
    cmpResult # NoCall => (cmpResult.ret => \E c \in cmpResult.cond : Single(c))

\* the other half of C33
C33_MaskIf ==
    cmpResult # NoCall => ((\E c \in cmpResult.cond : Single(c)) => cmpResult.ret)

\* ------------------------------------------------------------------------
\* Properties of the history as a log of events (checked under SpecObs)
\* ------------------------------------------------------------------------

\* the items GetFullHistory returns for clock c, now and before the last
\* call
itemsNow(c) == fullHistoryIn(history, tables, c).h
itemsBefore(c) == fullHistoryIn(log[1].wasHs, log[1].wasTbl, c).h

\* the event the call cl asks for
eventOf(cl) ==
    CASE cl.op = "Set" -> SetEvent(cl.r.Id, cl.r.Value)
      [] cl.op = "Tick" -> TickEvent(cl.r.id)
      [] OTHER -> MergeEvent(snapshotIn(log[1].wasHs, log[1].wasTbl, cl.other))

\* item is what the event it carries makes of the clock prev, in the
\* caller's identifiers
Replays(item, prev) ==
    /\ item.Change.Type \in eventNames
    /\ EventApply(item.Change, prev, NoOp).err = "nil"
    /\ EventApply(item.Change, prev, NoOp).m = item.Clock

\* the sequence x begins with the sequence y
BeginsWith(x, y) ==
    /\ Len(y) <= Len(x)
    /\ \A i \in 1..Len(y) : x[i] = y[i]

\* C32: with history kept, every item but the first carries the event
\* that produced it, in the caller's identifiers, and its clock is the
\* clock of the item before it with that event applied; a call other
\* than Prune leaves the items that were there as they were.
C32_EventSourced ==
    \A c \in Twins :
        maintain[c] =>
            /\ \A i \in 2..Len(itemsNow(c)) : Replays(itemsNow(c)[i], itemsNow(c)[i - 1].Clock)
            /\ Applied(c) => itemsNow(c)[Len(itemsNow(c))].Change = eventOf(log[1].cl)
            /\ (LastCallOn(c) /\ ~Pruned(c)) => BeginsWith(itemsNow(c), itemsBefore(c))

\* a clock with the SHA256 shortener that keeps history was merged with
\* the peer after another event
C32_Witness ==
    \E c \in Twins :
        /\ maintain[c]
        /\ shortener[c] = SHA256
        /\ Applied(c)
        /\ log[1].cl.op = "Merge"
        /\ Len(itemsNow(c)) = 3
        /\ itemsNow(c)[3].Clock # itemsNow(c)[2].Clock

\* ------------------------------------------------------------------------
\* Requests and responses of concurrent callers (checked under Spec)
\* ------------------------------------------------------------------------

\* the type of response the caller of the request r asserts
respTypeOf(r) ==
    CASE r.t = "respComp" -> "bool"
      [] r.t = "reqFullHistory" -> "respHistoryAll"
      [] r.t = "reqGet" -> "respGetterWithStatus"
      [] r.t = "reqHistory" -> "respHistory"
      [] r.t = "reqLastUpdate" -> "respGetter"
      [] r.t \in snapRequests -> "respClock"
      [] OTHER -> "respErr"

\* the callers waiting for a response of clock c
Receivers(c) == {p \in Procs : pc[p] = "recv" /\ call[p].to = c}

\* C34: the actor holds one response exactly while one caller, whose
\* request it took, waits for it, and none otherwise; the response is of
\* the type that caller's request asks for, and what a caller has
\* received is the response to its own request.
C34_Paired ==
    /\ \A c \in Clocks :
        /\ Cardinality(Receivers(c)) = IF actor[c].at = "send" THEN 1 ELSE 0
        /\ \A p \in Receivers(c) : actor[c].resp.t = respTypeOf(call[p].r)
    /\ \A p \in Procs :
        HasReturned(p) =>
            /\ got[p].t = respTypeOf(call[p].r)
            /\ ~selfPeer => got[p] = expect[p]

\* the actor of A holds the response to the request of one caller
\* while the other caller is blocked sending a request that asks for
\* another type of response
C34_Witness ==
    \E p \in Procs, q \in Procs :
        /\ p \in Receivers("A")
        /\ actor["A"].at = "send"
        /\ sending(q, "A")
        /\ respTypeOf(call[q].r) # respTypeOf(call[p].r)
        /\ HasReturned(q) = FALSE
        /\ ops = MaxOps

\* ------------------------------------------------------------------------
\* Specification of clocks used mutually: the callers merge and compare
\* A and B with each other and with themselves and tick them, the clocks
\* staying open
\* ------------------------------------------------------------------------

StartMerge(p, vc, other) == Invoke(p, peerCall("Merge", vc, other, {}))
StartCompare(p, vc, other) == Invoke(p, peerCall("compare", vc, other, {equal}))
StartTick(p, vc) == Invoke(p, singleCall("Tick", vc, reqTick("a")))

InitMutual == InitCallers({InitA}, {InitB})

\* the steps of the actors and of the callers inside a call
MutualSteps ==
    \/ \E c \in Clocks, p \in Procs : Receive(c, p)
    \/ \E c \in Clocks, p \in Procs : Continue(c, p)
    \/ \E c \in Clocks, p \in Procs : Return(c, p)

NextMutual ==
    \/ \E p \in Procs, vc \in Clocks, other \in Clocks : StartMerge(p, vc, other)
    \/ \E p \in Procs, vc \in Clocks, other \in Clocks : StartCompare(p, vc, other)
    \/ \E p \in Procs, vc \in Clocks : StartTick(p, vc)
    \/ MutualSteps

SpecMutual == InitMutual /\ [][NextMutual]_vars

\* what a step of MutualSteps does to the positions of the callers: the
\* actor of c takes the request of p, resp. p receives the response and
\* returns or goes on to its second request
Taken(c, p) ==
    /\ selecting(c)
    /\ sending(p, c)
    /\ pc' = [pc EXCEPT ![p] = "recv"]

Answered(c, p) ==
    /\ actor[c].at = "send"
    /\ receiving(p, c)
    /\ pc' = [pc EXCEPT ![p] = IF lastResponse(call[p], actor[c].resp) THEN "idle" ELSE "send"]

Scheduled == \E c \in Clocks, p \in Procs : Taken(c, p) \/ Answered(c, p)

\* the scheduler runs every goroutine that can take a step; the steps
\* of MutualSteps are the steps of the specification that satisfy
\* Scheduled, and one is possible exactly when Scheduled is
SpecMutualFair == SpecMutual /\ WF_pc(Scheduled)

\* the fairness condition is about the steps of MutualSteps
ScheduledIsMutualSteps == [][MutualSteps <=> Scheduled]_vars

\* C37: every call on open clocks returns, also when the callers merge
\* or compare two clocks with each other at the same time or a clock
\* with itself.
C37_EveryCallReturns == \A p \in Procs : (pc[p] # "idle") ~> (pc[p] = "idle")

\* the call of caller p, not yet returned, is vc.Merge(other)
Merging(p, vc, other) ==
    /\ pc[p] # "idle"
    /\ call[p].op = "Merge"
    /\ call[p].vc = vc
    /\ call[p].other = other

\* A.Merge(B) and B.Merge(A) are under way at the same time, each caller
\* waiting to send its request for the snapshot of the other clock
C37_Witness ==
    /\ Merging("p1", "A", "B")
    /\ Merging("p2", "B", "A")
    /\ \A p \in Procs : pc[p] = "send" /\ ~call[p].last

\* no state in which a step of a call is possible to no goroutine while
\* a call has not returned
C37_NeverStuck == (\E p \in Procs : pc[p] # "idle") => ENABLED <<Scheduled>>_pc

\* a clock was merged with itself and the call returned nil
C37_SelfMerged ==
    ~ \E p \in Procs :
        /\ HasReturned(p)
        /\ call[p].op = "Merge"
        /\ call[p].vc = call[p].other
        /\ got[p] = noErr

\* ------------------------------------------------------------------------
\* Specification of construction: clock A is started by New or
\* NewWithHistory and clock B by Copy or FromBytes from A, under shortener
\* names one of which is not registered; then the clocks are used
\* ------------------------------------------------------------------------

\* a name no shortener is registered under
unregistered == "XYZ"

\* the names the caller passes
NewNames == ShortenerNames \cup {"", unregistered}

ErrMissingKey == "ErrMissingKey"

\* the nil IdentifierShortener
nilShortener == "nilShortener"

\* ShortenerFactory.Get: init registers NoOp and SHA256
factoryGet(name) ==
    IF name \in ShortenerNames
    THEN [s |-> name, err |-> "nil"]
    ELSE [s |-> nilShortener, err |-> ErrMissingKey]

\* newClock: the shortener the goroutine of the clock works with, the
\* error of Get being dropped
clockShortener(shortenerName) == factoryGet(desiredName(shortenerName)).s

\* the actor has panicked
panicked == [resp |-> NoResp, at |-> "panic"]

\* newHistory calls Shorten of the shortener s for every key of init
startPanics(init, s, applyShortenerToInit) ==
    /\ s = nilShortener
    /\ applyShortenerToInit
    /\ init # EmptyMap

\* processRequest calls a method of the shortener, or takes one as a
\* value, when it serves r
needsShortener(r) ==
    CASE r.t \in {"reqPrune", "reqSnapShortenedIdentifiers"} -> FALSE
      [] r.t = "reqTick" -> r.id # ""
      [] OTHER -> TRUE

\* newClock: the clock started from init, or the panic of its goroutine
newClock(tbl, init, shortenerName, applyShortenerToInit) ==
    IF startPanics(init, clockShortener(shortenerName), applyShortenerToInit)
    THEN [s |-> nilShortener, tbl |-> tbl, h |-> notStarted, panic |-> TRUE]
    ELSE IF clockShortener(shortenerName) = nilShortener
    THEN [s |-> nilShortener, tbl |-> tbl, h |-> newHistory(init, NoOp, FALSE), panic |-> FALSE]
    ELSE [s |-> clockShortener(shortenerName),
          tbl |-> newClockTables(tbl, init, clockShortener(shortenerName), applyShortenerToInit),
          h |-> newClockHistory(init, clockShortener(shortenerName), applyShortenerToInit),
          panic |-> FALSE]

\* some goroutine has panicked: the process has ended
Crashed == \E c \in Clocks : actor[c].at = "panic"

\* the caller's record of a call
newLogged(op, c, name, err) == [name |-> name, c |-> c, err |-> err, op |-> op]

\* the constructor op, called with the shortener name, started clock c
\* as out and returned it, or its goroutine panicked
Constructed(op, c, name, mh, out) ==
    /\ history' = [history EXCEPT ![c] = out.h]
    /\ tables' = out.tbl
    /\ maintain' = [maintain EXCEPT ![c] = mh]
    /\ shortener' = [shortener EXCEPT ![c] = out.s]
    /\ ctx' = [ctx EXCEPT ![c] = "live"]
    /\ actor' = [actor EXCEPT ![c] = IF out.panic THEN panicked ELSE inSelect]
    /\ log' = Append(log, newLogged(op, c, name, IF out.panic THEN "panic" ELSE "nil"))
    /\ UNCHANGED <<start, compareVars, pc, call, got, expect, seq, ops, selfPeer, ticks,
                   parent, closeReturned, late, bytesVars>>

\* a call returned err and left the store s
NewReturns(op, c, err, s) ==
    /\ history' = s.hs
    /\ tables' = s.tbl
    /\ log' = Append(log, newLogged(op, c, shortener[c], err))
    /\ UNCHANGED <<maintain, shortener, start, compareVars, callerVars, lifeVars, bytesVars>>

\* the goroutine of clock c panicked while it served a request
Panics(op, c) ==
    /\ actor' = [actor EXCEPT ![c] = panicked]
    /\ log' = Append(log, newLogged(op, c, shortener[c], "panic"))
    /\ UNCHANGED <<clockVars, start, compareVars, pc, call, got, expect, seq, ops, selfPeer,
                   ticks, lifeVars, bytesVars>>

\* the caller can make a call
CanCall == Len(log) < MaxCalls /\ ~Crashed

\* the caller holds clock c
Holds(c) == ctx[c] = "live" /\ actor[c].at = "select"

\* New and NewWithHistory
CallNew(mh, init, name) ==
    /\ CanCall
    /\ ctx["A"] = "none"
    /\ Constructed(IF mh THEN "NewWithHistory" ELSE "New", "A", name, mh,
                   newClock(tables, init, name, TRUE))

\* the error of the response resp
errOf(resp) == IF resp.t = "respErr" THEN resp.err ELSE resp.e

\* a call on clock c that sends the request r
NewRequest(op, c, r) ==
    /\ CanCall
    /\ Holds(c)
    /\ IF shortener[c] = nilShortener /\ needsShortener(r)
       THEN Panics(op, c)
       ELSE NewReturns(op, c, errOf(serve(history, tables, c, r, "").resp),
                       serve(history, tables, c, r, ""))

\* VClock.Bytes on clock c
NewBytes(c) ==
    /\ CanCall
    /\ Holds(c)
    /\ NewReturns("Bytes", c,
                  IF factoryGet(shortener[c]).err # "nil"
                  THEN factoryGet(shortener[c]).err
                  ELSE Bytes(history, tables, c).err,
                  serve(history, tables, c, reqSnapShortenedIdentifiers, ""))

\* VClock.Copy of A: GetClock and New with the shortener name of A
CallCopy ==
    /\ CanCall
    /\ Holds("A")
    /\ ctx["B"] = "none"
    /\ IF shortener["A"] = nilShortener
       THEN Panics("Copy", "A")
       ELSE Constructed("Copy", "B", shortener["A"], FALSE,
                        newClock(tables, GetClock(history, tables, "A").resp.c,
                                 shortener["A"], TRUE))

\* fromBytes of the bytes cs under the desired name, the shortener of the
\* bytes being registered
fromBytesNew(tbl, cs, name) ==
    IF cs.S # desiredName(name)
    THEN newClock(tbl, recoverKeys(cs, tbl).c, name, TRUE)
    ELSE newClock(shortenerMerge(tbl, cs.S, cs.B), cs.C, name, FALSE)

\* FromBytes and FromBytesWithHistory of the bytes of A
CallFromBytes(mh, name) ==
    /\ CanCall
    /\ Holds("A")
    /\ ctx["B"] = "none"
    /\ shortener["A"] # nilShortener
    /\ Constructed(IF mh THEN "FromBytesWithHistory" ELSE "FromBytes", "B", name, mh,
                   fromBytesNew(tables, Bytes(history, tables, "A").data, name))

NewInits == MapsOver({"a"}, {0})

InitNew ==
    /\ maintain = [c \in Clocks |-> FALSE]
    /\ shortener = [c \in Clocks |-> NoOp]
    /\ history = [c \in Clocks |-> notStarted]
    /\ tables = initTables
    /\ ctx = [c \in Clocks |-> "none"]
    /\ parent = [c \in Clocks |-> scope]
    /\ closeReturned = {}
    /\ late = {}
    /\ actor = [c \in Clocks |-> unborn]
    /\ pc = [p \in Procs |-> "idle"]
    /\ call = [p \in Procs |-> NoCall]
    /\ got = [p \in Procs |-> NoResp]
    /\ expect = [p \in Procs |-> NoResp]
    /\ seq = [tbl |-> tables, hs |-> history]
    /\ ops = 0
    /\ selfPeer = FALSE
    /\ ticks = [id \in LongIds |-> 0]
    /\ IdleCompare
    /\ IdleMerge
    /\ IdleBytes

NextNew ==
    \/ \E mh \in BOOLEAN, init \in NewInits, name \in NewNames : CallNew(mh, init, name)
    \/ CallCopy
    \/ \E mh \in BOOLEAN, name \in NewNames : CallFromBytes(mh, name)
    \/ \E c \in Clocks : NewRequest("Set", c, reqSet("b", 1))
    \/ \E c \in Clocks, id \in {"", "a"} : NewRequest("Tick", c, reqTick(id))
    \/ \E c \in Clocks : NewRequest("GetClock", c, reqSnap)
    \/ \E c \in Clocks : NewRequest("Prune", c, reqPrune)
    \/ \E c \in Clocks : NewBytes(c)

SpecNew == InitNew /\ [][NextNew]_vars

\* the calls that start a clock
Constructors == {"New", "NewWithHistory", "Copy", "FromBytes", "FromBytesWithHistory"}

\* C38 (as claimed): a constructor called with a shortener name that is
\* not registered returns an error, and no clock fails when its
\* shortener is first used.
C38_UnregisteredRefused ==
    /\ \A i \in 1..Len(log) :
        (log[i].op \in Constructors /\ log[i].name = unregistered) => log[i].err \notin {"nil", "panic"}
    /\ ~Crashed

\* a part of C38: no constructor returns a clock for a name that is not
\* registered
C38_NoClockReturned ==
    \A i \in 1..Len(log) :
        (log[i].op \in Constructors /\ log[i].name = unregistered) => log[i].err # "nil"

\* a part of C38: no goroutine panics
C38_NoPanic == ~Crashed

\* under the registered names no goroutine panics
C38_RegisteredSafe ==
    Crashed => \E i \in 1..Len(log) : log[i].op \in Constructors /\ log[i].name = unregistered

\* ------------------------------------------------------------------------
\* Specification of the identifiers of a clock: clock A is started by New
\* from an initial clock that may hold the empty identifier, clock B from
\* one that does not; the caller sets, ticks, merges and decodes
\* ------------------------------------------------------------------------

\* the initial clocks of A and of B
EmptyIdInits == MapsOver({"", "a"}, {0})
PlainInits == MapsOver({"b"}, {0})

InitIds == InitCallers(EmptyIdInits, PlainInits)

\* the arguments the caller passes
IdsSetIds == {"", "c"}
IdsTickIds == {"", "a"}

NextIds ==
    \/ \E vc \in Clocks, id \in IdsSetIds : SeqSet(vc, id, 1)
    \/ \E vc \in Clocks, id \in IdsTickIds : SeqTick(vc, id)
    \/ \E vc \in Clocks, other \in Clocks : SeqMerge(vc, other)
    \/ \E vc \in Clocks, desired \in DesiredNames : RoundTrip(vc, desired, local)

SpecIds == InitIds /\ [][NextIds]_vars

\* the snapshot of clock c
snapshotNow(c) == contents(history[c], tables, shortener[c])

\* the snapshot of clock c when New returned it
snapshotAtStart(c) == contents(start.hs[c], start.tbl, shortener[c])

\* the clocks FromBytes returned
DecodedClocks == {log[i].decoded : i \in {j \in 1..Len(log) : log[j].op = "FromBytes"}}

\* C39 (as claimed): no snapshot of a clock, and no clock decoded from
\* bytes, contains the empty identifier.
C39_NoEmptyIdentifier ==
    /\ \A c \in Clocks : "" \notin DOMAIN snapshotNow(c)
    /\ \A d \in DecodedClocks : "" \notin DOMAIN d

\* a part of C39: Set and Tick never install the empty identifier, and
\* Merge and FromBytes install it only if a clock was started with it
C39_OnlyFromInit ==
    (\A c \in Clocks : "" \notin DOMAIN snapshotAtStart(c)) => C39_NoEmptyIdentifier

\* a part of C39: a clock started without the empty identifier never
\* holds it
C39_PeerKeepsNone == "" \notin DOMAIN snapshotNow("B")

\* a part of C39: no decoded clock holds the empty identifier
C39_DecodedHasNone == \A d \in DecodedClocks : "" \notin DOMAIN d

\* ------------------------------------------------------------------------
\* Specification of SynchronisedMap: two goroutines call the operations
\* of one map. In this specification tables holds the map (its fields lck
\* and m), pc the position of each goroutine, call its operation, got what
\* the operation returned, ops the number of calls begun and late the
\* goroutines whose access to m overlapped a conflicting access
\* ------------------------------------------------------------------------

SyncKeys == {"a", "b"}
SyncValues == {1, 2}

\* the values m can hold
SyncMaps == MapsOver(SyncKeys, SyncValues)

ErrKeyExists == "ErrKeyExists"

\* the operations that take s.lck before they touch s.m
lockingOps == {"Insert", "GetKeys", "Len", "String"}

\* the operations that touch s.m without taking s.lck
barringOps == {"Contains", "Get", "Remove"}

\* the first access of an operation to s.m
firstAccess(op) == IF op = "Remove" THEN "write" ELSE "read"

\* m without the key k
deleted(m, k) == [x \in (DOMAIN m) \ {k} |-> m[x]]

\* fmt.Sprint of a map: the pairs in the order of the keys
sprintMap(m) == [i \in 1..Len(sortedKeys(m)) |-> <<sortedKeys(m)[i], m[sortedKeys(m)[i]]>>]

\* the goroutine the runtime has stopped the process in
fatal == "fatal"

\* NewSynchronisedMap(map[string]int{"a": 1})
InitSync ==
    /\ tables = [m |-> MapPut(EmptyMap, "a", 1), lck |-> "free"]
    /\ pc = [p \in Procs |-> "idle"]
    /\ call = [p \in Procs |-> NoCall]
    /\ got = [p \in Procs |-> NoResp]
    /\ ops = 0
    /\ late = {}
    /\ maintain = [c \in Clocks |-> FALSE]
    /\ shortener = [c \in Clocks |-> NoOp]
    /\ history = [c \in Clocks |-> notStarted]
    /\ ctx = [c \in Clocks |-> "none"]
    /\ parent = [c \in Clocks |-> scope]
    /\ closeReturned = {}
    /\ actor = [c \in Clocks |-> unborn]
    /\ expect = [p \in Procs |-> NoResp]
    /\ seq = [tbl |-> initTables, hs |-> history]
    /\ selfPeer = FALSE
    /\ ticks = [id \in LongIds |-> 0]
    /\ start = [tbl |-> initTables, hs |-> history]
    /\ log = << >>
    /\ IdleCompare
    /\ IdleBytes

syncRest == <<history, maintain, shortener, compareVars, mergeVars, actor, expect, seq,
              selfPeer, ticks, ctx, parent, closeReturned, bytesVars>>

\* goroutine p calls the operation op with the key k, the value v and
\* errIfExists e
SyncCall(p, op, k, v, e) ==
    /\ pc[p] = "idle"
    /\ ops < MaxOps
    /\ call' = [call EXCEPT ![p] = [k |-> k, v |-> v, op |-> op, errIfExists |-> e,
                                    kind |-> firstAccess(op)]]
    /\ pc' = [pc EXCEPT ![p] = IF op \in lockingOps THEN "lock" ELSE "access"]
    /\ ops' = ops + 1
    /\ UNCHANGED <<tables, got, late, syncRest>>

\* s.lck.Lock()
SyncLock(p) ==
    /\ pc[p] = "lock"
    /\ tables.lck = "free"
    /\ tables' = [tables EXCEPT !.lck = p]
    /\ pc' = [pc EXCEPT ![p] = "access"]
    /\ UNCHANGED <<call, got, ops, late, syncRest>>

\* the goroutines inside an access to s.m that conflicts with an access
\* of the given kind by p
conflicting(p, kind) ==
    {q \in Procs \ {p} : IF pc[q] = "in" THEN kind = "write" \/ call[q].kind = "write" ELSE FALSE}

\* goroutine p begins its access to s.m
SyncBegin(p) ==
    /\ pc[p] = "access"
    /\ pc' = [pc EXCEPT ![p] = "in"]
    /\ late' = IF conflicting(p, call[p].kind) = {}
               THEN late
               ELSE late \cup {p} \cup conflicting(p, call[p].kind)
    /\ UNCHANGED <<tables, call, got, ops, syncRest>>

\* what the operation c returns when its read found the map seen
readResult(c, seen) ==
    CASE c.op = "Get" ->
            IF c.k \in DOMAIN seen
            THEN [err |-> "nil", ret |-> seen[c.k]]
            ELSE [err |-> ErrMissingKey, ret |-> 0]
      [] c.op = "Contains" -> [err |-> "nil", ret |-> c.k \in DOMAIN seen]
      [] c.op = "GetKeys" -> [err |-> "nil", ret |-> sortedKeys(seen)]
      [] c.op = "Len" -> [err |-> "nil", ret |-> Cardinality(DOMAIN seen)]
      [] c.op = "String" -> [err |-> "nil", ret |-> sprintMap(seen)]
      [] OTHER -> [err |-> IF c.k \in DOMAIN seen /\ c.errIfExists THEN ErrKeyExists ELSE "nil",
                   ret |-> IF c.k \in DOMAIN seen /\ ~c.errIfExists THEN seen[c.k] ELSE 0]

\* Insert goes on to s.m[k] = v after its read found the map seen
insertWrites(c, seen) == c.op = "Insert" /\ (c.k \notin DOMAIN seen \/ ~c.errIfExists)

\* the map after the write of operation c
written(c, m) == IF c.op = "Remove" THEN deleted(m, c.k) ELSE MapPut(m, c.k, c.v)

\* where goroutine p goes on after an access
afterAccess(c) == IF c.op \in lockingOps THEN "unlock" ELSE "idle"

\* goroutine p ends a read of s.m in which it found the map seen
SyncEndRead(p, seen) ==
    /\ pc[p] = "in"
    /\ call[p].kind = "read"
    /\ IF p \in late THEN TRUE ELSE seen = tables.m
    /\ got' = [got EXCEPT ![p] = readResult(call[p], seen)]
    /\ call' = [call EXCEPT ![p].kind = IF insertWrites(call[p], seen) THEN "write" ELSE "read"]
    /\ pc' = [pc EXCEPT ![p] = IF insertWrites(call[p], seen) THEN "access" ELSE afterAccess(call[p])]
    /\ late' = late \ {p}
    /\ UNCHANGED <<tables, ops, syncRest>>

\* goroutine p ends a write of s.m, which left the map after
SyncEndWrite(p, after) ==
    /\ pc[p] = "in"
    /\ call[p].kind = "write"
    /\ IF p \in late THEN TRUE ELSE after = written(call[p], tables.m)
    /\ tables' = [tables EXCEPT !.m = after]
    /\ pc' = [pc EXCEPT ![p] = afterAccess(call[p])]
    /\ late' = late \ {p}
    /\ UNCHANGED <<call, got, ops, syncRest>>

\* the runtime finds the map accessed by two goroutines at once and ends
\* the process (fatal error: concurrent map read and map write)
SyncFatal(p) ==
    /\ pc[p] = "in"
    /\ p \in late
    /\ pc' = [q \in Procs |-> fatal]
    /\ UNCHANGED <<tables, call, got, ops, late, syncRest>>

\* the deferred s.lck.Unlock()
SyncUnlock(p) ==
    /\ pc[p] = "unlock"
    /\ tables' = [tables EXCEPT !.lck = "free"]
    /\ pc' = [pc EXCEPT ![p] = "idle"]
    /\ UNCHANGED <<call, got, ops, late, syncRest>>

NextSync ==
    \/ \E p \in Procs, k \in SyncKeys, e \in BOOLEAN : SyncCall(p, "Insert", k, 2, e)
    \/ \E p \in Procs, op \in barringOps, k \in SyncKeys : SyncCall(p, op, k, 0, FALSE)
    \/ \E p \in Procs, op \in lockingOps \ {"Insert"} : SyncCall(p, op, "", 0, FALSE)
    \/ \E p \in Procs : SyncLock(p)
    \/ \E p \in Procs : SyncBegin(p)
    \/ \E p \in Procs, seen \in SyncMaps : SyncEndRead(p, seen)
    \/ \E p \in Procs, after \in SyncMaps : SyncEndWrite(p, after)
    \/ \E p \in Procs : SyncFatal(p)
    \/ \E p \in Procs : SyncUnlock(p)

SpecSync == InitSync /\ [][NextSync]_vars

\* goroutine p is inside an access to s.m
InMap(p) == pc[p] = "in"

\* C40 (as claimed): every operation of SynchronisedMap touches the map
\* only while it holds the mutex, so no read or delete of the map
\* overlaps a write to it.
C40_MutexGuardsMap ==
    /\ \A p \in Procs : InMap(p) => tables.lck = p
    /\ \A p \in Procs : \A q \in Procs \ {p} :
        ~(InMap(p) /\ InMap(q) /\ call[p].kind = "write")

\* a part of C40: no access overlaps a write, and the runtime never ends
\* the process
C40_NoRace == late = {} /\ \A p \in Procs : pc[p] # fatal

\* a part of C40: Insert, GetKeys, Len and String touch the map only
\* while they hold the mutex, and never overlap each other
C40_LockingOpsGuarded ==
    /\ \A p \in Procs : (InMap(p) /\ call[p].op \in lockingOps) => tables.lck = p
    /\ \A p \in Procs : \A q \in Procs \ {p} :
        ~(InMap(p) /\ InMap(q) /\ call[p].op \in lockingOps /\ call[q].op \in lockingOps)

====
